---- MODULE Spec2Model ----
(***************************************************************************)
(* npconv: backup converter between a structured store (NewPipe, a SQL     *)
(* database in a zip), a flat document (LibreTube, JSON) and a habit store *)
(* (uHabits) fed from a time-record export (Simple Time Tracker).          *)
(*                                                                         *)
(* Tables are sequences of rows in rowid order.  URLs are records that     *)
(* keep the parts the converters look at: which of the recognised shapes   *)
(* the URL has and the identifier it carries.  Numbers are scaled to the   *)
(* range of TLC integers: SafeIntBound stands for Number.MAX_SAFE_INTEGER  *)
(* and MsScale for the 1e12 that separates seconds from milliseconds.      *)
(***************************************************************************)
EXTENDS Integers, Sequences, FiniteSets, TLC

\* ------------------------------------------------------------------ bounds
\* Stand-in for 2^53-1: the largest value clampToSafeInt lets through.
SafeIntBound == 6
\* Stand-in for 1e12: larger numbers are milliseconds, others are seconds.
MsScale == 10000
\* Number of conversion runs chained one after the other.
MaxRuns == 2
\* Longest playlist of the input stores.
MaxMembers == 2

\* --------------------------------------------------------------- constants
SERVICE_ID_YOUTUBE == 0
MAX_SAFE_NUM == SafeIntBound
DedupWindowMs == 1000

\* ----------------------------------------------------------------- helpers
Range(s) == {s[i] : i \in DOMAIN s}

RECURSIVE FoldSeq(_, _, _)
FoldSeq(Op(_, _), acc, s) ==
  IF s = <<>> THEN acc ELSE FoldSeq(Op, Op(acc, Head(s)), Tail(s))

RemoveAt(s, i) == SubSeq(s, 1, i - 1) \o SubSeq(s, i + 1, Len(s))

\* index of the first element satisfying Test, 0 when there is none
FindIndex(s, Test(_)) ==
  IF \E i \in DOMAIN s : Test(s[i])
  THEN CHOOSE i \in DOMAIN s : Test(s[i]) /\ \A j \in 1..(i - 1) : ~Test(s[j])
  ELSE 0

\* ------------------------------------------------------------------- URLs
\* A video URL: shape "watch" is ...?v=<id>, "short" is youtu.be/<id>,
\* "shorts" is .../shorts/<id>, "embed" is .../embed/<id>; "other" has none
\* of these and "none" is an absent URL.
VideoShapes == {"watch", "short", "shorts", "embed"}
NoUrl == [shape |-> "none", id |-> ""]

extractVideoIdFromUrl(url) ==
  IF url.shape \in VideoShapes THEN url.id ELSE ""

\* `https://www.youtube.com/watch?v=${videoId}`
WatchUrl(videoId) == [shape |-> "watch", id |-> videoId]

\* A channel or playlist URL: yt says whether it contains youtube.com or
\* youtu.be, id is the channel id or the list= parameter ("" when absent).
IsYouTubeUrl(url) == url.yt

\* ---------------------------------------------------------------- codecs
Abs(x) == IF x < 0 THEN -x ELSE x

clampToSafeInt(value) ==
  IF value > MAX_SAFE_NUM THEN MAX_SAFE_NUM
  ELSE IF value < -MAX_SAFE_NUM THEN -MAX_SAFE_NUM
  ELSE value

\* clampToSafeInt of any value: Number(value || 0) is not finite for NaN, the
\* infinities and a text that is no number
NotFinite == [kind |-> "nan", n |-> 0]
Finite(n) == [kind |-> "number", n |-> n]
clampToSafeIntOf(value) ==
  IF value.kind # "number" THEN 0 ELSE clampToSafeInt(value.n)

\* 2^53-1 in the unit of access times
MaxSafeMs == 9007 * MsScale

\* numeric branch of parseAccessDateToMs
parseAccessDateToMs(raw) ==
  IF raw > MsScale THEN raw ELSE raw * 1000

\* a raw date value: null (also undefined and the empty string), a text that
\* is no number, a string that begins with an ISO date, an 8-digit compact
\* date, or a finite number n.  Numbers are in the unit in which MsScale
\* stands for 10^12.
NullDate == [kind |-> "null", n |-> 0]
NumDate(n) == [kind |-> "number", n |-> n]

\* 10^9, from which on a number is taken for seconds
SecondsMin == MsScale \div 1000
\* 8.64 * 10^15, the largest time value of a Date
MaxTimeValue == 8640 * MsScale

\* the calendar date of the instant ms, 1970-01-01 being the date of 0
DateOfMs(ms) == [ms |-> ms]
Epoch == DateOfMs(0)

\* new Date(ms).toISOString().split('T')[0]: toISOString raises a RangeError
\* on an invalid Date
IsoDateOf(ms) ==
  IF Abs(ms) > MaxTimeValue THEN [threw |-> TRUE, date |-> Epoch]
  ELSE [threw |-> FALSE, date |-> DateOfMs(ms)]

formatUploadDate(raw) ==
  IF raw.kind \in {"null", "text"} THEN [threw |-> FALSE, date |-> Epoch]
  ELSE IF raw.kind \in {"iso", "compact"} THEN [threw |-> FALSE, date |-> DateOfMs(raw.n)]
  ELSE IF Abs(raw.n) > MsScale THEN IsoDateOf(raw.n)
  ELSE IF Abs(raw.n) >= SecondsMin THEN IsoDateOf(raw.n * 1000)
  ELSE IsoDateOf(raw.n)

\* ------------------------------------------------------------------- log
LogEntry(level, event, subject) ==
  [level |-> level, event |-> event, subject |-> subject]

\* a record the converter left out, with the names a log entry could use
Skip(kind, subject) == [kind |-> kind, subject |-> subject]


\* --------------------------------------------------------- the flat document
\* "no link": the entry carries no url field
NoLink == [yt |-> FALSE, id |-> "<none>"]

\* bad names the top-level arrays that are not arrays in the file (a JSON
\* object where an array is expected); such a field holds no items.
\* otherPlaylistKeys holds the other top-level keys whose name contains
\* "playlist", which the converters carry along without reading them.
EmptyBackup ==
  [subscriptions |-> <<>>, playlistBookmarks |-> <<>>, localPlaylists |-> <<>>,
   watchHistory |-> <<>>, watchPositions |-> <<>>, bad |-> {},
   otherPlaylistKeys |-> <<>>]

\* the value of an absent input file
NoFile == [absent |-> TRUE]

PlaylistBehaviors ==
  {"merge_np_precedence", "merge_lt_precedence", "only_newpipe", "only_libretube", "null"}

\* ------------------------------------------------ queries on the structured store
\* ORDER BY join_index ASC
RECURSIVE OrderByJoinIndex(_)
OrderByJoinIndex(S) ==
  IF S = {} THEN <<>>
  ELSE LET m == CHOOSE x \in S : \A y \in S : x.join_index <= y.join_index
       IN <<m>> \o OrderByJoinIndex(S \ {m})

\* SELECT ... FROM <table> t JOIN streams s ON t.stream_id = s.uid
\*  WHERE s.service_id = SERVICE_ID_YOUTUBE : the url of the joined stream,
\* <<>> when the join drops the row
JoinedStream(db, stream_id) ==
  SelectSeq(db.streams,
            LAMBDA s : s.uid = stream_id /\ s.service_id = SERVICE_ID_YOUTUBE)

\* the playlist's members in stored order (ORDER BY j.join_index ASC)
PlaylistMembers(db, plId) ==
  LET js == OrderByJoinIndex({j \in Range(db.playlist_stream_join) : j.playlist_id = plId})
      Step(acc, j) == LET s == JoinedStream(db, j.stream_id)
                      IN IF s = <<>> THEN acc ELSE Append(acc, s[1])
  IN FoldSeq(Step, <<>>, js)

PlaylistMemberUrls(db, plId) ==
  [k \in DOMAIN PlaylistMembers(db, plId) |-> PlaylistMembers(db, plId)[k].url]

\* ------------------------------------------------ Structured -> Flat converter
\* targetData after the existing flat document was read (merge mode)
LtReadTarget(ltFile, mode, pb) ==
  IF mode = "merge" /\ ltFile # NoFile
  THEN IF pb = "only_newpipe"
       THEN [ltFile EXCEPT !.subscriptions = <<>>, !.playlistBookmarks = <<>>,
                           !.localPlaylists = <<>>,
                           !.bad = @ \ {"subscriptions", "playlistBookmarks"}]
       ELSE ltFile
  ELSE EmptyBackup

\* variant: the import is never skipped
LtSkipImportPlaylists_Never(ltFile, mode, pb) == FALSE

LtSkipImportPlaylists(ltFile, mode, pb) ==
  mode = "merge" /\ ltFile # NoFile /\ pb = "only_libretube"

LtSubscriptionRow(acc, row) ==
  IF acc.threw THEN acc
  ELSE IF ~IsYouTubeUrl(row.url)
  THEN [acc EXCEPT !.log = Append(@, LogEntry("warn", "Dropped non-YouTube subscription URL", row.name)),
                   !.skips = Append(@, Skip("subscription", row.name))]
  ELSE IF "subscriptions" \in acc.doc.bad
  THEN [acc EXCEPT !.threw = TRUE]
  ELSE [acc EXCEPT !.doc.subscriptions =
          Append(@, [channelId |-> row.url.id, url |-> row.url, name |-> row.name])]

LtRemotePlaylistRow(acc, row) ==
  IF acc.threw THEN acc
  ELSE IF ~IsYouTubeUrl(row.url)
  THEN [acc EXCEPT !.log = Append(@, LogEntry("warn", "Dropped non-YouTube remote playlist URL", row.name)),
                   !.skips = Append(@, Skip("remote playlist", row.name))]
  ELSE IF "playlistBookmarks" \in acc.doc.bad
  THEN [acc EXCEPT !.threw = TRUE]
  ELSE [acc EXCEPT !.doc.playlistBookmarks =
          Append(@, [playlistId |-> row.url.id, playlistName |-> row.name,
                     url |-> NoLink, videos |-> clampToSafeInt(row.stream_count)])]

\* variant: a translated member is put in front of the ones before it
LtPlaylistVideo_Prepend(plName, acc, v) ==
  LET vidId == extractVideoIdFromUrl(v.url)
  IN IF acc.threw THEN acc
     ELSE IF vidId = ""
     THEN [acc EXCEPT !.log = Append(@, LogEntry("warn", "Skipped stream in playlist", plName)),
                      !.skips = Append(@, Skip("playlist video", plName))]
     ELSE IF formatUploadDate(v.upload_date).threw THEN [acc EXCEPT !.threw = TRUE]
     ELSE [acc EXCEPT !.videos = <<[videoId |-> vidId, url |-> NoUrl]>> \o @]

\* one member of a playlist: translated, or skipped with a warning.  The entry
\* keeps the video id; formatting the upload date of the member may raise.
LtPlaylistVideo(plName, acc, v) ==
  LET vidId == extractVideoIdFromUrl(v.url)
  IN IF acc.threw THEN acc
     ELSE IF vidId = ""
     THEN [acc EXCEPT !.log = Append(@, LogEntry("warn", "Skipped stream in playlist", plName)),
                      !.skips = Append(@, Skip("playlist video", plName))]
     ELSE IF formatUploadDate(v.upload_date).threw THEN [acc EXCEPT !.threw = TRUE]
     ELSE [acc EXCEPT !.videos = Append(@, [videoId |-> vidId, url |-> NoUrl])]

LtPushPlaylist(lps, plRow, videos) ==
  Append(lps, [name |-> plRow.name, id |-> clampToSafeInt(plRow.uid),
               videos |-> videos, hasVideos |-> TRUE])

\* the members of one source playlist, translated in stored order
LtPlaylistVideos(db, acc, plRow) ==
  FoldSeq(LAMBDA a, v : LtPlaylistVideo(plRow.name, a, v),
          [videos |-> <<>>, log |-> acc.log, skips |-> acc.skips, threw |-> FALSE],
          PlaylistMembers(db, plRow.uid))

\* variant: the playlist is added whether or not its name is already there
LtPlacePlaylist_AlwaysPush(pb, acc, plRow, vs) ==
  IF ~(vs.videos # <<>> \/ plRow.name # "")
  THEN [acc EXCEPT !.log = vs.log, !.skips = Append(vs.skips, Skip("playlist", plRow.name))]
  ELSE [acc EXCEPT !.log = vs.log, !.skips = vs.skips,
                   !.doc.localPlaylists = LtPushPlaylist(@, plRow, vs.videos)]

\* the translated playlist vs is added, replaces the one of its name, or is dropped
LtPlacePlaylist(pb, acc, plRow, vs) ==
  LET plName == plRow.name
      existingIndex == FindIndex(acc.doc.localPlaylists, LAMBDA p : p.name = plName)
  IN IF ~(vs.videos # <<>> \/ plName # "")
     THEN [acc EXCEPT !.log = vs.log, !.skips = Append(vs.skips, Skip("playlist", plName))]
     ELSE IF existingIndex > 0 /\ pb # "merge_np_precedence"
     THEN [acc EXCEPT !.log = vs.log, !.skips = Append(vs.skips, Skip("playlist", plName))]
     ELSE IF existingIndex > 0
     THEN [acc EXCEPT !.log = vs.log, !.skips = vs.skips,
                      !.doc.localPlaylists =
                         LtPushPlaylist(RemoveAt(@, existingIndex), plRow, vs.videos)]
     ELSE [acc EXCEPT !.log = vs.log, !.skips = vs.skips,
                      !.doc.localPlaylists = LtPushPlaylist(@, plRow, vs.videos)]

\* an error raised while the members are translated leaves the run
LtPlaceOrThrow(pb, acc, plRow, vs) ==
  IF vs.threw THEN [acc EXCEPT !.threw = TRUE, !.log = vs.log, !.skips = vs.skips]
  ELSE LtPlacePlaylist(pb, acc, plRow, vs)

LtPlaylistRow(db, pb, acc, plRow) ==
  IF acc.threw THEN acc
  ELSE LtPlaceOrThrow(pb, acc, plRow, LtPlaylistVideos(db, acc, plRow))

\* stable sort by descending access date
RECURSIVE SortHistoryDesc(_)
SortHistoryDesc(s) ==
  IF s = <<>> THEN <<>>
  ELSE LET rest == SortHistoryDesc(Tail(s))
           h == Head(s)
           \* h goes before the first element that is not larger than it
           k == FindIndex(rest, LAMBDA e : e.accessDate <= h.accessDate)
       IN IF k = 0 THEN Append(rest, h)
          ELSE SubSeq(rest, 1, k - 1) \o <<h>> \o SubSeq(rest, k, Len(rest))

\* posMap.set(videoId, position): a Map keeps the order of first insertion
MapSet(m, key, val) ==
  LET i == FindIndex(m, LAMBDA e : e.videoId = key)
  IN IF i = 0 THEN Append(m, [videoId |-> key, position |-> val])
     ELSE [m EXCEPT ![i].position = val]

MapGet(m, key) ==
  LET i == FindIndex(m, LAMBDA e : e.videoId = key)
  IN IF i = 0 THEN 0 ELSE m[i].position

\* posMap built from the pre-existing watchPositions
LtPosMapOfTarget(wps) ==
  FoldSeq(LAMBDA m, wp : IF wp.videoId # "" THEN MapSet(m, wp.videoId, clampToSafeInt(wp.position)) ELSE m,
          <<>>, wps)

\* variant: the source progress overwrites whatever is known
LtMergeStateRow_Overwrite(db, acc, r) ==
  LET s == JoinedStream(db, r.stream_id)
      vid == IF s = <<>> THEN "" ELSE extractVideoIdFromUrl(s[1].url)
  IN IF s = <<>> THEN acc
     ELSE IF vid = "" THEN [acc EXCEPT !.skips = Append(@, Skip("watch state", s[1].url.id))]
     ELSE [acc EXCEPT !.posMap = MapSet(@, vid, clampToSafeInt(r.progress_time))]

\* one stream_state row merged into posMap: keep the maximum known progress
LtMergeStateRow(db, acc, r) ==
  LET s == JoinedStream(db, r.stream_id)
      vid == IF s = <<>> THEN "" ELSE extractVideoIdFromUrl(s[1].url)
      existing == MapGet(acc.posMap, vid)
      progressClamped == clampToSafeInt(r.progress_time)
  IN IF s = <<>> THEN acc
     ELSE IF vid = "" THEN [acc EXCEPT !.skips = Append(@, Skip("watch state", s[1].url.id))]
     ELSE IF progressClamped > existing
     THEN [acc EXCEPT !.posMap = MapSet(@, vid, progressClamped)]
     ELSE acc

\* variant: a row is appended also when the document has the video already
LtMergeHistoryRow_NoSkip(db, existingIds, acc, r) ==
  LET s == JoinedStream(db, r.stream_id)
      vid == IF s = <<>> THEN "" ELSE extractVideoIdFromUrl(s[1].url)
  IN IF s = <<>> \/ acc.threw \/ vid = "" THEN acc
     ELSE [acc EXCEPT !.hist = Append(@, [videoId |-> vid, url |-> NoUrl,
                                          accessDate |-> parseAccessDateToMs(r.access_date),
                                          repeatCount |-> 0, currentTime |-> 0])]

\* one stream_history row merged into the history list
LtMergeHistoryRow(db, existingIds, acc, r) ==
  LET s == JoinedStream(db, r.stream_id)
      vid == IF s = <<>> THEN "" ELSE extractVideoIdFromUrl(s[1].url)
  IN IF s = <<>> \/ acc.threw THEN acc
     ELSE IF vid = "" THEN [acc EXCEPT !.skips = Append(@, Skip("watch history", s[1].url.id))]
     ELSE IF formatUploadDate(s[1].upload_date).threw THEN [acc EXCEPT !.threw = TRUE]
     ELSE IF vid \in existingIds
     THEN [acc EXCEPT !.skips = Append(@, Skip("watch history", vid))]
     ELSE [acc EXCEPT !.hist = Append(@, [videoId |-> vid, url |-> NoUrl,
                                          accessDate |-> parseAccessDateToMs(r.access_date),
                                          repeatCount |-> 0, currentTime |-> 0])]

\* posMap after every stream_state row of the store was merged into it
LtStates(db, acc) ==
  FoldSeq(LAMBDA a, r : LtMergeStateRow(db, a, r),
          [posMap |-> LtPosMapOfTarget(acc.doc.watchPositions), skips |-> acc.skips],
          db.stream_state)

LtHistoryRows(db) ==
  SelectSeq(db.stream_history, LAMBDA r : JoinedStream(db, r.stream_id) # <<>>)

\* the history already in the document, access dates normalised
LtExistingHistory(doc) ==
  IF "watchHistory" \in doc.bad THEN <<>>
  ELSE [i \in DOMAIN doc.watchHistory |->
          [doc.watchHistory[i] EXCEPT !.accessDate = parseAccessDateToMs(@)]]

LtExistingIds(existingHistory) == {e.videoId : e \in Range(existingHistory)} \ {""}

LtHistories(db, existingHistory, skips) ==
  FoldSeq(LAMBDA a, r : LtMergeHistoryRow(db, LtExistingIds(existingHistory), a, r),
          [hist |-> existingHistory, skips |-> skips, threw |-> FALSE], LtHistoryRows(db))

\* an error raised in the loop is caught around the whole import: the
\* positions are written already, the history stays as it was
LtWriteHistory(acc, posMap, hs) ==
  IF hs.threw
  THEN [acc EXCEPT !.doc.watchPositions = posMap,
                   !.skips = hs.skips,
                   !.log = Append(@, LogEntry("warn", "Failed to import watch history", ""))]
  ELSE [acc EXCEPT !.doc.watchPositions = posMap,
                   !.doc.watchHistory = SortHistoryDesc(hs.hist),
                   !.doc.bad = @ \ {"watchHistory"},
                   !.skips = hs.skips]

LtImportHistoryFrom(db, acc, st) ==
  IF LtHistoryRows(db) = <<>>
  THEN [acc EXCEPT !.doc.watchPositions = st.posMap, !.skips = st.skips]
  ELSE LtWriteHistory(acc, st.posMap,
                      LtHistories(db, LtExistingHistory(acc.doc), st.skips))

LtImportHistory(db, acc) == LtImportHistoryFrom(db, acc, LtStates(db, acc))

\* the whole run; out is the downloaded document when the run did not throw
LtStart(ltFile, mode, pb) ==
  [doc |-> LtReadTarget(ltFile, mode, pb), log |-> <<>>, skips |-> <<>>, threw |-> FALSE]

LtSubscriptions(db, acc) ==
  FoldSeq(LtSubscriptionRow, acc,
          SelectSeq(db.subscriptions, LAMBDA r : r.service_id = SERVICE_ID_YOUTUBE))

LtRemotePlaylists(db, skip, acc) ==
  IF skip THEN acc
  ELSE FoldSeq(LtRemotePlaylistRow, acc,
               SelectSeq(db.remote_playlists, LAMBDA r : r.service_id = SERVICE_ID_YOUTUBE))

LtLocalPlaylists(db, pb, skip, acc) ==
  IF skip THEN acc
  ELSE FoldSeq(LAMBDA a, r : LtPlaylistRow(db, pb, a, r), acc, db.playlists)

\* only_libretube restores the snapshot taken before any mutation
LtRestorePlaylists(ltFile, skip, acc) ==
  IF skip
  THEN [acc EXCEPT !.doc.playlistBookmarks = ltFile.playlistBookmarks,
                   !.doc.localPlaylists = ltFile.localPlaylists,
                   !.doc.otherPlaylistKeys = ltFile.otherPlaylistKeys]
  ELSE acc

LtClampPositions(acc) ==
  [acc EXCEPT !.doc.watchPositions =
     [i \in DOMAIN @ |-> [@[i] EXCEPT !.position = clampToSafeInt(@)]]]

LtHistoryStep(db, includeWatchHistory, acc) ==
  IF includeWatchHistory /\ ~acc.threw THEN LtImportHistory(db, acc) ELSE acc

LtPlaylistSteps(db, ltFile, pb, skip, acc) ==
  LtRestorePlaylists(ltFile, skip,
    LtLocalPlaylists(db, pb, skip, LtRemotePlaylists(db, skip, acc)))

convertToLibreTube(db, ltFile, mode, pb, includeWatchHistory) ==
  LtHistoryStep(db, includeWatchHistory,
    LtClampPositions(
      LtPlaylistSteps(db, ltFile, pb, LtSkipImportPlaylists(ltFile, mode, pb),
        LtSubscriptions(db, LtStart(ltFile, mode, pb)))))


\* ------------------------------------------------------ the structured store
\* createSchema on a new database: every table empty.  seq is sqlite_sequence,
\* the last uid an AUTOINCREMENT table handed out.
EmptyDb ==
  [subscriptions |-> <<>>, streams |-> <<>>, playlists |-> <<>>,
   playlist_stream_join |-> <<>>, remote_playlists |-> <<>>,
   stream_state |-> <<>>, stream_history |-> <<>>, feed |-> <<>>,
   room_master_table |-> 0,
   seq |-> [subscriptions |-> 0, streams |-> 0, playlists |-> 0, remote_playlists |-> 0],
   stateSchema |-> "canonical", tables |-> {}]

createSchema == EmptyDb

\* ensureStreamStateSchema.  stateSchema is the shape of the stream_state table:
\* "canonical", or "legacy" (the same columns in another order, no foreign
\* key); tables names the tables of the store beyond the ones of the schema.
\* inTxn tells whether a transaction is left open on return.
ensureStreamStateSchema(db) ==
  IF db.stateSchema = "canonical"
  THEN [db |-> db, inTxn |-> FALSE,
        log |-> <<LogEntry("schema", "stream_state schema OK", "")>>]
  ELSE IF "stream_state_old" \in db.tables
  THEN \* ALTER TABLE ... RENAME TO stream_state_old fails after BEGIN
       \* TRANSACTION; the catch logs the error and rolls nothing back
       [db |-> db, inTxn |-> TRUE,
        log |-> <<LogEntry("schema", "Patching stream_state schema", ""),
                  LogEntry("err", "Failed to ensure stream_state schema", "")>>]
  ELSE IF \E i, j \in DOMAIN db.stream_state :
            i # j /\ db.stream_state[i].stream_id = db.stream_state[j].stream_id
  THEN \* INSERT ... SELECT meets the primary key of the new table and copies
       \* nothing; the warning is logged, the old table dropped, the
       \* transaction committed
       [db |-> [db EXCEPT !.stateSchema = "canonical", !.stream_state = <<>>],
        inTxn |-> FALSE,
        log |-> <<LogEntry("schema", "Patching stream_state schema", ""),
                  LogEntry("warn", "could not copy old stream_state rows", ""),
                  LogEntry("schema", "stream_state schema patched", "")>>]
  ELSE [db |-> [db EXCEPT !.stateSchema = "canonical"], inTxn |-> FALSE,
        log |-> <<LogEntry("schema", "Patching stream_state schema", ""),
                  LogEntry("schema", "stream_state schema patched", "")>>]

\* INSERT OR IGNORE INTO streams: the unique index (service_id, url) decides
InsertStreamOrIgnore(db, vidUrl) ==
  IF \E s \in Range(db.streams) : s.service_id = SERVICE_ID_YOUTUBE /\ s.url = vidUrl
  THEN db
  ELSE [db EXCEPT !.streams = Append(@, [uid |-> db.seq.streams + 1,
                                         service_id |-> SERVICE_ID_YOUTUBE, url |-> vidUrl,
                                         upload_date |-> NullDate]),
                  !.seq.streams = @ + 1]

\* SELECT uid FROM streams WHERE service_id = 0 AND url = vidUrl (0: no row)
StreamUidByUrl(db, vidUrl) ==
  LET i == FindIndex(db.streams, LAMBDA s : s.service_id = SERVICE_ID_YOUTUBE /\ s.url = vidUrl)
  IN IF i = 0 THEN 0 ELSE db.streams[i].uid

\* ------------------------------------------------ Flat -> Structured converter
NpFatal(acc, phase) ==
  [acc EXCEPT !.threw = TRUE, !.failed = @ \cup {phase},
              !.log = Append(@, LogEntry("err", "FATAL ERROR during phase", phase))]

\* --- Subscriptions
NpSubscription(acc, sub) ==
  LET url == IF sub.url # NoLink THEN sub.url ELSE [yt |-> TRUE, id |-> sub.channelId]
      name == IF sub.name # "" THEN sub.name ELSE "Unknown"
  IN IF ~IsYouTubeUrl(url)
     THEN [acc EXCEPT !.log = Append(@, LogEntry("warn", "Dropped non-YouTube subscription", name)),
                      !.skips = Append(@, Skip("subscription", name))]
     ELSE IF \E r \in Range(acc.db.subscriptions) :
                r.service_id = SERVICE_ID_YOUTUBE /\ r.url = url
     THEN \* the unique index rejects the row; the error is caught per record
          [acc EXCEPT !.log = Append(@, LogEntry("err", "ERROR inserting subscription", sub.name)),
                      !.skips = Append(@, Skip("subscription", sub.name))]
     ELSE [acc EXCEPT !.db.subscriptions =
             Append(@, [uid |-> acc.db.seq.subscriptions + 1,
                        service_id |-> SERVICE_ID_YOUTUBE, url |-> url, name |-> name]),
                      !.db.seq.subscriptions = @ + 1]

NpSubscriptionsPhase(acc, ltData, mode) ==
  LET a1 == IF mode = "merge"
            THEN [acc EXCEPT !.db.subscriptions =
                    SelectSeq(@, LAMBDA r : r.service_id # SERVICE_ID_YOUTUBE)]
            ELSE acc
  IN IF acc.threw THEN acc
     ELSE IF "subscriptions" \in ltData.bad
     THEN NpFatal(a1, "subscriptions")
     ELSE FoldSeq(NpSubscription, a1, ltData.subscriptions)

\* --- Local playlists
\* the membership row of the stream, which becomes the thumbnail when it is
\* the first one of the playlist
NpJoinStream(db, plId, streamId, joinIndex) ==
  [db EXCEPT !.playlist_stream_join =
               Append(@, [playlist_id |-> plId, stream_id |-> streamId,
                          join_index |-> joinIndex]),
             !.playlists =
               IF joinIndex = 0
               THEN [i \in DOMAIN @ |-> IF @[i].uid = plId
                                        THEN [@[i] EXCEPT !.thumbnail_stream_id = streamId]
                                        ELSE @[i]]
               ELSE @]

NpAddToPlaylist(db, plId, vidUrl, joinIndex) ==
  NpJoinStream(db, plId, StreamUidByUrl(db, vidUrl), joinIndex)

NpPlaylistVideo(plName, plId, acc, vid) ==
  LET videoId == IF vid.videoId # "" THEN vid.videoId
                 ELSE IF vid.url # NoUrl THEN extractVideoIdFromUrl(vid.url) ELSE ""
  IN IF videoId = ""
     THEN [acc EXCEPT !.log = Append(@, LogEntry("warn", "Skipped video in playlist due to missing videoId", plName)),
                      !.skips = Append(@, Skip("playlist video", plName))]
     ELSE [acc EXCEPT !.db = NpAddToPlaylist(InsertStreamOrIgnore(@, WatchUrl(videoId)),
                                             plId, WatchUrl(videoId), acc.joinIndex),
                      !.joinIndex = @ + 1]

\* variant: the existing playlist row is deleted, its membership rows are kept
NpReplaceExisting_KeepMembers(acc, existing, plName) ==
  IF existing > 0
  THEN [acc EXCEPT !.db.playlists = RemoveAt(@, existing),
                   !.log = Append(@, LogEntry("schema", "Replaced existing local playlist", plName))]
  ELSE acc

\* LibreTube precedence: the existing playlist and its members are deleted
NpReplaceExisting(acc, existing, plName) ==
  IF existing > 0
  THEN [acc EXCEPT !.db.playlist_stream_join =
                     SelectSeq(@, LAMBDA j : j.playlist_id # acc.db.playlists[existing].uid),
                   !.db.playlists = RemoveAt(@, existing),
                   !.log = Append(@, LogEntry("schema", "Replaced existing local playlist", plName))]
  ELSE acc

\* playlistInsert: the new row has no thumbnail yet
NpInsertPlaylist(acc, plName) ==
  [acc EXCEPT !.db.playlists =
                Append(@, [uid |-> acc.db.seq.playlists + 1, name |-> plName,
                           thumbnail_stream_id |-> -1, display_index |-> acc.plCount]),
              !.db.seq.playlists = @ + 1,
              !.joinIndex = 0]

\* the videos of the playlist just inserted, whose uid is the last one handed out
NpPlaylistVideos(plName, acc, lp) ==
  IF ~lp.hasVideos
  THEN \* iterating the missing videos array throws after the playlist row was written
       [acc EXCEPT !.threw = TRUE,
                   !.log = Append(@, LogEntry("err", "FATAL ERROR processing playlist", plName))]
  ELSE [FoldSeq(LAMBDA a, v : NpPlaylistVideo(plName, acc.db.seq.playlists, a, v),
                acc, lp.videos)
          EXCEPT !.plCount = @ + 1]

NpLocalPlaylist(pb, acc, lp) ==
  LET plName == IF lp.name # "" THEN lp.name ELSE "Untitled"
      existing == FindIndex(acc.db.playlists, LAMBDA p : p.name = plName)
  IN IF acc.threw THEN acc
     ELSE IF existing > 0 /\ pb # "merge_lt_precedence"
     THEN [acc EXCEPT !.log = Append(@, LogEntry("warn", "Skipping duplicate local playlist", plName)),
                      !.skips = Append(@, Skip("playlist", plName))]
     ELSE NpPlaylistVideos(plName,
                           NpInsertPlaylist(NpReplaceExisting(acc, existing, plName), plName),
                           lp)

\* variant: the import is never skipped
NpSkipPlaylistImport_Never(mode, pb) == FALSE

NpSkipPlaylistImport(mode, pb) == mode = "merge" /\ pb = "only_newpipe"

NpClearPlaylists(acc, mode, pb) ==
  IF mode = "merge" /\ pb = "only_libretube"
  THEN [acc EXCEPT !.db.playlist_stream_join = <<>>, !.db.playlists = <<>>,
                   !.db.remote_playlists = <<>>]
  ELSE acc

NpImportPlaylists(acc, ltData, mode, pb) ==
  IF NpSkipPlaylistImport(mode, pb) THEN acc
  ELSE FoldSeq(LAMBDA a, lp : NpLocalPlaylist(pb, a, lp),
               [acc EXCEPT !.plCount = 0], ltData.localPlaylists)

\* the catch of a phase: the failure is logged and thrown on
NpPhaseCatch(acc, phase) == IF acc.threw THEN NpFatal(acc, phase) ELSE acc

NpPlaylistsPhase(acc, ltData, mode, pb) ==
  IF acc.threw THEN acc
  ELSE NpPhaseCatch(NpImportPlaylists(NpClearPlaylists(acc, mode, pb), ltData, mode, pb),
                    "playlists")

\* --- Remote playlist bookmarks
NpRemotePlaylist(pb, acc, rb) ==
  LET url == IF rb.url # NoLink THEN rb.url
             ELSE IF rb.playlistId # "" THEN [yt |-> TRUE, id |-> rb.playlistId]
             ELSE NoLink
      playlistName == IF rb.playlistName # "" THEN rb.playlistName ELSE "Untitled"
      existing == FindIndex(acc.db.remote_playlists,
                            LAMBDA r : r.url = url \/ r.name = playlistName)
      a1 == IF existing > 0 /\ pb = "merge_lt_precedence"
            THEN [acc EXCEPT !.db.remote_playlists = RemoveAt(@, existing)]
            ELSE acc
  IN IF url = NoLink \/ ~IsYouTubeUrl(url)
     THEN [acc EXCEPT !.log = Append(@, LogEntry("warn", "Dropped non-YouTube remote playlist", playlistName)),
                      !.skips = Append(@, Skip("remote playlist", playlistName))]
     ELSE IF existing > 0 /\ pb = "merge_np_precedence"
     THEN \* NewPipe precedence: keep the existing bookmark, skip this one
          [acc EXCEPT !.skips = Append(@, Skip("remote playlist", playlistName))]
     ELSE [a1 EXCEPT !.db.remote_playlists =
             Append(@, [uid |-> a1.db.seq.remote_playlists + 1,
                        service_id |-> SERVICE_ID_YOUTUBE, name |-> playlistName,
                        url |-> url, display_index |-> a1.rplCount,
                        stream_count |-> rb.videos]),
                     !.db.seq.remote_playlists = @ + 1,
                     !.rplCount = @ + 1]

NpRemotePlaylistsPhase(acc, ltData, mode, pb) ==
  IF acc.threw \/ NpSkipPlaylistImport(mode, pb) THEN acc
  ELSE IF "playlistBookmarks" \in ltData.bad THEN NpFatal(acc, "remote playlists")
  ELSE FoldSeq(LAMBDA a, rb : NpRemotePlaylist(pb, a, rb),
               [acc EXCEPT !.rplCount = 0], ltData.playlistBookmarks)

\* --- Watch history and watch state
\* watchPosMap: videoId -> position, the last entry of a video id wins
NpWatchPosMap(wps) ==
  FoldSeq(LAMBDA m, p : IF p.videoId # "" THEN MapSet(m, p.videoId, p.position) ELSE m,
          <<>>, wps)

\* INSERT OR REPLACE INTO stream_state (primary key stream_id)
ReplaceStreamState(db, progressTime, streamId) ==
  [db EXCEPT !.stream_state =
     Append(SelectSeq(@, LAMBDA r : r.stream_id # streamId),
            [progress_time |-> progressTime, stream_id |-> streamId])]

\* INSERT OR REPLACE INTO stream_history (primary key stream_id, access_date)
ReplaceStreamHistory(db, streamId, accessDateMs, repeatCount) ==
  [db EXCEPT !.stream_history =
     Append(SelectSeq(@, LAMBDA r : ~(r.stream_id = streamId /\ r.access_date = accessDateMs)),
            [stream_id |-> streamId, access_date |-> accessDateMs,
             repeat_count |-> repeatCount])]

\* rows of the stream whose access date lies within the window around accessDateMs
HistoryWithinWindow(db, streamId, accessDateMs) ==
  {r \in Range(db.stream_history) :
     /\ r.stream_id = streamId
     /\ r.access_date >= accessDateMs - DedupWindowMs
     /\ r.access_date <= accessDateMs + DedupWindowMs}

\* write one history record: merge into the first matched row or insert
WriteStreamHistory(db, mode, streamId, accessDateMs, repeatCount) ==
  LET existing == HistoryWithinWindow(db, streamId, accessDateMs)
      first == CHOOSE r \in existing : \A q \in existing : r.access_date <= q.access_date
  IN IF mode = "merge" /\ existing # {}
     THEN [db EXCEPT !.stream_history =
             [i \in DOMAIN @ |->
                IF @[i].stream_id = streamId /\ @[i].access_date = first.access_date
                THEN [@[i] EXCEPT !.repeat_count = first.repeat_count + repeatCount]
                ELSE @[i]]]
     ELSE ReplaceStreamHistory(db, streamId, accessDateMs, repeatCount)

\* stream_state, then stream_history, of one history entry
NpWriteForStream(db, mode, streamId, progressTime, accessDateMs, repeatCount) ==
  WriteStreamHistory(ReplaceStreamState(db, progressTime, streamId),
                     mode, streamId, accessDateMs, repeatCount)

NpWriteHistoryItem(db, mode, vidUrl, progressTime, accessDateMs, repeatCount) ==
  NpWriteForStream(db, mode, StreamUidByUrl(db, vidUrl), progressTime, accessDateMs, repeatCount)

NpHistoryItem(mode, now, watchPosMap, acc, vid) ==
  LET vidId == IF vid.videoId # "" THEN vid.videoId
               ELSE IF vid.url # NoUrl THEN extractVideoIdFromUrl(vid.url) ELSE ""
      progressTime == IF \E e \in Range(watchPosMap) : e.videoId = vidId
                      THEN MapGet(watchPosMap, vidId)
                      ELSE vid.currentTime * 1000
      accessDateMs == IF vid.accessDate = 0 THEN now
                      ELSE IF vid.accessDate > MsScale THEN vid.accessDate
                      ELSE vid.accessDate * 1000
      repeatCount == IF vid.repeatCount # 0 THEN vid.repeatCount ELSE 1
  IN IF vidId = ""
     THEN [acc EXCEPT !.skips = Append(@, Skip("watch history", vid.videoId))]
     ELSE [acc EXCEPT !.db = NpWriteHistoryItem(InsertStreamOrIgnore(@, WatchUrl(vidId)),
                                                mode, WatchUrl(vidId), progressTime,
                                                accessDateMs, repeatCount)]

NpHistoryPhase(acc, ltData, mode, now) ==
  IF acc.threw THEN acc
  ELSE IF "watchHistory" \in ltData.bad
  THEN \* the error is logged and the run goes on to commit
       [acc EXCEPT !.failed = @ \cup {"history"},
                   !.log = Append(@, LogEntry("err", "Error processing history", ""))]
  ELSE FoldSeq(LAMBDA a, v : NpHistoryItem(mode, now, NpWatchPosMap(ltData.watchPositions), a, v),
               acc, ltData.watchHistory)

\* the store the run writes into: the one loaded and patched (merge) or a
\* new schema
NpSetup(npFile, mode) ==
  IF mode = "merge" /\ npFile # NoFile
  THEN ensureStreamStateSchema(npFile)
  ELSE [db |-> createSchema, inTxn |-> FALSE, log |-> <<>>]

\* BEGIN TRANSACTION, which fails within a transaction; nothing catches it
NpBegin(setup) ==
  [db |-> setup.db, log |-> setup.log, skips |-> <<>>,
   threw |-> setup.inTxn, failed |-> IF setup.inTxn THEN {"begin"} ELSE {},
   plCount |-> 0, rplCount |-> 0, joinIndex |-> 0]

NpStart(npFile, mode) == NpBegin(NpSetup(npFile, mode))

NpRoomMasterTable(acc) ==
  IF acc.threw THEN acc ELSE [acc EXCEPT !.db.room_master_table = @ + 1]

\* db is the store as the run left it; it is committed and exported only when
\* no phase propagated its failure.  No path issues a ROLLBACK: a run that
\* threw leaves open the transaction it began, or the one it met.  No path
\* closes the handle opened on the store either.
NpOutcome(acc) ==
  [db |-> acc.db, log |-> acc.log, skips |-> acc.skips, threw |-> acc.threw,
   failed |-> acc.failed, committed |-> ~acc.threw, exported |-> ~acc.threw,
   inTxn |-> acc.threw, dbOpen |-> TRUE]

NpPhases(acc, ltData, mode, pb, now) ==
  NpHistoryPhase(
    NpRemotePlaylistsPhase(
      NpPlaylistsPhase(NpSubscriptionsPhase(acc, ltData, mode), ltData, mode, pb),
      ltData, mode, pb),
    ltData, mode, now)

\* the whole run
convertToNewPipe(npFile, ltData, mode, pb, now) ==
  NpOutcome(NpRoomMasterTable(NpPhases(NpStart(npFile, mode), ltData, mode, pb, now)))


\* ------------------------------------------- Time-Record -> Habit-Boolean converter
DayMs == 86400000
MinuteMs == 60000

\* filterRecordsByDuration
filterRecordsByDuration(records, minMinutes) ==
  IF minMinutes <= 0 THEN records
  ELSE SelectSeq(records, LAMBDA r : r.end_timestamp - r.start_timestamp >= minMinutes * MinuteMs)

getRecordsForType(records, typeId) ==
  SelectSeq(records, LAMBDA r : r.type_id = typeId)

\* the day key of groupRecordsByDay: the UTC calendar day of the start time
DayKey(record) == record.start_timestamp \div DayMs

\* groupRecordsByDay: the groups in the order their first record appears
groupRecordsByDay(records) ==
  FoldSeq(LAMBDA gs, r :
            LET i == FindIndex(gs, LAMBDA g : DayKey(g[1]) = DayKey(r))
            IN IF i = 0 THEN Append(gs, <<r>>) ELSE [gs EXCEPT ![i] = Append(@, r)],
          <<>>, records)

\* timestampToDayStart: midnight of the local day, zone being the offset of
\* local time from UTC in milliseconds
timestampToDayStart(timestampMs, zone) ==
  ((timestampMs + zone) \div DayMs) * DayMs - zone

\* parseUHabitsBackup: the boolean habits that are not archived
BooleanHabits(db) == {h.id : h \in {x \in Range(db.Habits) : x.type = 0 /\ x.archived = 0}}

\* variant: no existing repetition is taken into account
SttExistingReps_Empty(repetitions) == {}

\* the set of existing repetitions used for deduplication
SttExistingReps(repetitions) == {<<rep.habit, rep.timestamp>> : rep \in Range(repetitions)}

\* the default of the parameter, which no caller overrides
fillRepetitionNotes == TRUE

\* Math.round(totalDurationMs / 60000)
TotalMinutes(dayRecords) ==
  (FoldSeq(LAMBDA sum, r : sum + (r.end_timestamp - r.start_timestamp), 0, dayRecords)
     + MinuteMs \div 2) \div MinuteMs

\* the notes of a new repetition, as the pieces of the string; <<>> is null
RepetitionNotes(dayRecords) ==
  IF fillRepetitionNotes
  THEN <<"Converted from STT: ", ToString(Len(dayRecords)),
         IF Len(dayRecords) > 1 THEN " sessions, " ELSE " session, ",
         ToString(TotalMinutes(dayRecords)), "min total">>
  ELSE <<>>

\* variant: the key of an inserted row is not remembered
SttDayGroup_ForgetKey(mapping, zone, acc, dayRecords) ==
  LET dayTimestamp == timestampToDayStart(dayRecords[1].start_timestamp, zone)
      key == <<mapping.uhabitsHabitId, dayTimestamp>>
  IN IF acc.threw THEN acc
     ELSE IF key \in acc.existingReps
     THEN [acc EXCEPT !.skipped = @ + 1]
     ELSE IF acc.db.uniqueIndex /\ \E r \in Range(acc.db.Repetitions) :
                                      r.habit = key[1] /\ r.timestamp = key[2]
     THEN [acc EXCEPT !.threw = TRUE]
     ELSE [acc EXCEPT !.db.Repetitions =
             Append(@, [id |-> Len(@) + 1, habit |-> mapping.uhabitsHabitId,
                        timestamp |-> dayTimestamp, value |-> 2,
                        notes |-> RepetitionNotes(dayRecords)]),
                      !.inserted = @ + 1]

\* one day group of one mapping: skipped when the day is covered, else inserted
SttDayGroup(mapping, zone, acc, dayRecords) ==
  LET dayTimestamp == timestampToDayStart(dayRecords[1].start_timestamp, zone)
      key == <<mapping.uhabitsHabitId, dayTimestamp>>
  IN IF acc.threw THEN acc
     ELSE IF key \in acc.existingReps
     THEN [acc EXCEPT !.skipped = @ + 1]
     ELSE IF acc.db.uniqueIndex /\ \E r \in Range(acc.db.Repetitions) :
                                      r.habit = key[1] /\ r.timestamp = key[2]
     THEN \* idx_repetitions_habit_timestamp rejects the row and the run fails
          [acc EXCEPT !.threw = TRUE]
     ELSE [acc EXCEPT !.db.Repetitions =
             Append(@, [id |-> Len(@) + 1, habit |-> mapping.uhabitsHabitId,
                        timestamp |-> dayTimestamp, value |-> 2,
                        notes |-> RepetitionNotes(dayRecords)]),
                      !.existingReps = @ \cup {key},
                      !.inserted = @ + 1]

SttMapping(sttData, booleanHabits, zone, acc, mapping) ==
  LET filteredRecords == filterRecordsByDuration(sttData.records, mapping.minDuration)
      typeRecords == getRecordsForType(filteredRecords, mapping.sttTypeId)
  IN IF acc.threw THEN acc
     ELSE IF mapping.sttTypeId \notin sttData.recordTypes
     THEN [acc EXCEPT !.log = Append(@, LogEntry("warn", "STT activity type not found", ""))]
     ELSE IF mapping.uhabitsHabitId \notin booleanHabits
     THEN [acc EXCEPT !.log = Append(@, LogEntry("warn", "uHabits habit not found", ""))]
     ELSE IF typeRecords = <<>> THEN acc
     ELSE FoldSeq(LAMBDA a, g : SttDayGroup(mapping, zone, a, g), acc,
                  groupRecordsByDay(typeRecords))

convertSttToUHabits(sttData, uhabitsFile, mappings, zone) ==
  FoldSeq(LAMBDA a, m : SttMapping(sttData, BooleanHabits(uhabitsFile), zone, a, m),
          [db |-> uhabitsFile, existingReps |-> SttExistingReps(uhabitsFile.Repetitions),
           log |-> <<>>, inserted |-> 0, skipped |-> 0, threw |-> FALSE],
          mappings)


\* ------------------------------------------------------------- input files
SubRow(uid, svc, yt, ch) ==
  [uid |-> uid, service_id |-> svc, url |-> [yt |-> yt, id |-> ch], name |-> ch]

RemoteRow(uid, yt, list, name, count) ==
  [uid |-> uid, service_id |-> SERVICE_ID_YOUTUBE, name |-> name,
   url |-> [yt |-> yt, id |-> list], display_index |-> uid - 1, stream_count |-> count]

\* the streams of the input stores: ?v=a, youtu.be/b and a URL of no known shape
DefStreams ==
  << [uid |-> 1, service_id |-> SERVICE_ID_YOUTUBE, url |-> [shape |-> "watch", id |-> "a"],
      upload_date |-> NumDate(20)],
     [uid |-> 2, service_id |-> SERVICE_ID_YOUTUBE, url |-> [shape |-> "short", id |-> "b"],
      upload_date |-> NullDate],
     [uid |-> 3, service_id |-> SERVICE_ID_YOUTUBE, url |-> [shape |-> "other", id |-> "x"],
      upload_date |-> NullDate] >>

Pl(name, members) == [name |-> name, members |-> members]

\* a structured store as NewPipe writes it: referentially intact, uids in
\* rowid order, a playlist's thumbnail being its first member
MkNp(subs, pls, remotes, states, hists, feeds) ==
  [subscriptions |-> subs,
   streams |-> DefStreams,
   playlists |-> [i \in DOMAIN pls |->
                    [uid |-> i, name |-> pls[i].name,
                     thumbnail_stream_id |-> IF pls[i].members = <<>> THEN -1 ELSE pls[i].members[1],
                     display_index |-> i - 1]],
   playlist_stream_join |->
     FoldSeq(LAMBDA acc, i : acc \o [k \in DOMAIN pls[i].members |->
                                       [playlist_id |-> i, stream_id |-> pls[i].members[k],
                                        join_index |-> k - 1]],
             <<>>, [i \in DOMAIN pls |-> i]),
   remote_playlists |-> remotes,
   stream_state |-> states,
   stream_history |-> hists,
   feed |-> feeds,
   room_master_table |-> 1,
   seq |-> [subscriptions |-> Len(subs), streams |-> Len(DefStreams),
            playlists |-> Len(pls), remote_playlists |-> Len(remotes)],
   stateSchema |-> "canonical", tables |-> {}]

FlatSub(yt, ch) == [channelId |-> ch, url |-> [yt |-> yt, id |-> ch], name |-> ch]
FlatVideo(videoId, shape, id) ==
  [videoId |-> videoId, url |-> IF shape = "none" THEN NoUrl ELSE [shape |-> shape, id |-> id]]
FlatPl(name, videos) == [name |-> name, id |-> 1, videos |-> videos, hasVideos |-> TRUE]
FlatBookmark(playlistId, name) ==
  [playlistId |-> playlistId, playlistName |-> name, url |-> NoLink, videos |-> 1]
FlatHist(videoId, shape, accessDate, repeatCount) ==
  [videoId |-> videoId, url |-> IF shape = "none" THEN NoUrl ELSE [shape |-> shape, id |-> "b"],
   accessDate |-> accessDate, repeatCount |-> repeatCount, currentTime |-> 0]
FlatPos(videoId, position) == [videoId |-> videoId, position |-> position]

MkLt(subs, bookmarks, pls, hist, pos, bad) ==
  [subscriptions |-> subs, playlistBookmarks |-> bookmarks, localPlaylists |-> pls,
   watchHistory |-> hist, watchPositions |-> pos, bad |-> bad,
   otherPlaylistKeys |-> <<[key |-> "playlistSortOrder", value |-> "custom"]>>]

MemberSeqs == UNION {[1..n -> 1..Len(DefStreams)] : n \in 0..MaxMembers}

NpPlaylistChoices ==
  {<<>>} \cup {<<Pl("P", m)>> : m \in MemberSeqs}
  \cup { <<Pl("P", <<1, 2>>), Pl("Q", <<2, 1>>)>>,
         <<Pl("P", <<1>>), Pl("P", <<2>>)>>,
         <<Pl("", <<>>)>>,
         <<Pl("", <<1>>), Pl("Untitled", <<2>>)>> }

LtPlaylistChoices ==
  { <<>>,
    <<FlatPl("P", <<FlatVideo("a", "none", "")>>)>>,
    <<FlatPl("P", <<FlatVideo("b", "none", ""), FlatVideo("a", "none", "")>>)>>,
    <<FlatPl("P", <<FlatVideo("", "short", "b")>>)>>,
    <<FlatPl("P", <<FlatVideo("", "none", ""), FlatVideo("", "embed", "a")>>)>>,
    <<FlatPl("Q", <<>>)>>,
    <<[FlatPl("P", <<>>) EXCEPT !.hasVideos = FALSE]>>,
    <<FlatPl("P", <<FlatVideo("a", "none", "")>>), FlatPl("P", <<FlatVideo("b", "none", "")>>)>> }

NpSubChoices ==
  { <<>>,
    <<SubRow(1, SERVICE_ID_YOUTUBE, TRUE, "c1")>>,
    <<SubRow(1, SERVICE_ID_YOUTUBE, TRUE, "c1"), SubRow(2, SERVICE_ID_YOUTUBE, FALSE, "c2")>>,
    <<SubRow(1, SERVICE_ID_YOUTUBE, TRUE, "c1"), SubRow(2, 1, TRUE, "c2")>> }

NpRemoteChoices ==
  { <<>>,
    <<RemoteRow(1, TRUE, "L1", "R1", 3)>>,
    <<RemoteRow(1, FALSE, "L1", "R1", 3)>>,
    <<RemoteRow(1, TRUE, "", "R2", SafeIntBound + 1)>> }

LtSubChoices ==
  { <<>>, <<FlatSub(TRUE, "c1")>>, <<FlatSub(FALSE, "c3")>>,
    <<FlatSub(TRUE, "c2"), [FlatSub(TRUE, "c2") EXCEPT !.url = NoLink]>> }

LtBookmarkChoices ==
  { <<>>, <<FlatBookmark("L1", "R1")>>, <<FlatBookmark("", "R3")>>,
    <<FlatBookmark("L2", "R1")>> }

LtBadChoices == { {}, {"subscriptions"}, {"playlistBookmarks"}, {"watchHistory"} }

NpStateChoices ==
  { <<>>,
    <<[progress_time |-> 2, stream_id |-> 1]>>,
    <<[progress_time |-> SafeIntBound + 2, stream_id |-> 1]>>,
    <<[progress_time |-> 3, stream_id |-> 1], [progress_time |-> 5, stream_id |-> 2]>>,
    <<[progress_time |-> 4, stream_id |-> 3]>> }

HistRow(stream, access, repeat) ==
  [stream_id |-> stream, access_date |-> access, repeat_count |-> repeat]

NpHistChoices ==
  { <<>>,
    <<HistRow(1, 20000, 1)>>,
    <<HistRow(1, 20000, 1), HistRow(1, 21500, 2)>>,
    <<HistRow(2, 20000, 1)>>,
    <<HistRow(3, 20000, 1)>>,
    <<HistRow(2, MaxSafeMs + 5, 1)>> }

LtHistChoices ==
  { <<>>,
    <<FlatHist("a", "none", 20000, 1)>>,
    <<FlatHist("a", "none", 20000, 1), FlatHist("a", "none", 20800, 2)>>,
    <<FlatHist("a", "none", 20000, 1), FlatHist("a", "none", 21500, 2)>>,
    <<FlatHist("a", "none", 19200, 1), FlatHist("a", "none", 20800, 2)>>,
    <<FlatHist("a", "none", 20000, 1), FlatHist("a", "none", 20000, 2)>>,
    <<FlatHist("", "short", 20000, 0)>>,
    <<FlatHist("", "none", 20000, 1)>>,
    <<FlatHist("a", "none", 0, 1)>>,
    <<FlatHist("a", "none", 20, 1)>>,
    <<[FlatHist("a", "none", 20000, 1) EXCEPT !.currentTime = SafeIntBound + 2]>> }

LtPosChoices ==
  { <<>>,
    <<FlatPos("a", 1)>>,
    <<FlatPos("a", SafeIntBound + 1)>>,
    <<FlatPos("a", 5), FlatPos("a", 3)>>,
    <<FlatPos("a", 4), FlatPos("b", 2)>> }

\* the value of Date.now() during a run
NowChoices == {30000}

\* ------------------------------------------------------------ the state
VARIABLES
  np,      \* the structured store in the left input slot
  lt,      \* the flat document in the right input slot
  run,     \* the last conversion run: its arguments, inputs and outcome
  prev,    \* the run before it
  runs,    \* number of runs so far
  stt,     \* the time-record export
  uh,      \* the habit store
  zone,    \* offset of local time from UTC, in milliseconds
  sttRun,  \* the last Time-Record -> Habit-Boolean run
  ui       \* the signals of the page, the runs in flight and the open handles

vars == <<np, lt, run, prev, runs, stt, uh, zone, sttRun, ui>>

NoRun ==
  [op |-> "none", mode |-> "none", pb |-> "null", hist |-> FALSE, threw |-> FALSE,
   failed |-> {}, committed |-> FALSE, exported |-> FALSE, log |-> <<>>, skips |-> <<>>,
   inTxn |-> FALSE, dbOpen |-> FALSE, inNp |-> NoFile, inLt |-> NoFile]

NoSttRun ==
  [n |-> 0, mappings |-> <<>>, prevMappings |-> <<>>, inserted |-> 0, prevInserted |-> 0,
   threw |-> FALSE, prevThrew |-> FALSE, inReps |-> <<>>, dbOpen |-> FALSE]
NoStt == [recordTypes |-> {}, records |-> <<>>]
NoUh == [Habits |-> <<>>, Repetitions |-> <<>>, uniqueIndex |-> TRUE]

SttIdle == stt = NoStt /\ uh = NoUh /\ zone = 0 /\ sttRun = NoSttRun

\* the page as it is mounted.  Files are named by numbers, 0 being no file;
\* handles are named by numbers, 0 being no handle.  lastFile and lastFailed
\* tell of the load started last, reclosed names the handles closed again
\* after they were closed.
NoUi ==
  [mode |-> "merge", leftFile |-> 0, rightFile |-> 0, processing |-> FALSE,
   inflight |-> {},
   handles |-> {}, opened |-> 0,
   sttLoaded |-> FALSE, uhabitsData |-> 0, uhabitsFile |-> 0,
   currentOperationId |-> 0, loads |-> {},
   lastFile |-> 0, lastFailed |-> FALSE, reclosed |-> {}]
UiIdle == ui = NoUi
NlIdle == run = NoRun /\ prev = NoRun /\ runs = 0

\* playlists on both sides
InitPl ==
  /\ \/ /\ np \in {MkNp(<<SubRow(1, SERVICE_ID_YOUTUBE, TRUE, "c1")>>, p, <<>>, <<>>, <<>>, <<>>) :
                    p \in NpPlaylistChoices}
        /\ lt \in {MkLt(<<>>, <<>>, q, <<>>, <<>>, {}) :
                    q \in {<<>>, <<FlatPl("P", <<FlatVideo("a", "none", "")>>)>>}}
     \/ /\ np \in {MkNp(s, <<Pl("P", <<1, 2>>)>>, <<>>, <<>>, <<>>, <<>>) : s \in NpSubChoices}
                    \cup {MkNp(<<>>, <<>>, <<>>, <<>>, <<>>, <<>>)}
        /\ lt \in {MkLt(<<>>, <<>>, q, <<>>, <<>>, {}) : q \in LtPlaylistChoices}
  /\ NlIdle /\ SttIdle /\ UiIdle

\* subscriptions, bookmarks and fields that are not arrays
InitSub ==
  /\ np \in {MkNp(s, <<>>, <<>>, <<>>, <<>>, <<>>) : s \in NpSubChoices}
       \cup {MkNp(<<>>, <<>>, r, <<>>, <<>>, <<>>) : r \in NpRemoteChoices}
       \cup {MkNp(<<SubRow(1, SERVICE_ID_YOUTUBE, TRUE, "c1")>>, <<Pl("P", <<1>>)>>, <<>>, <<>>, <<>>,
                  <<[stream_id |-> 1, subscription_id |-> 1]>>)}
  /\ lt \in {MkLt(s, <<>>, <<>>, <<>>, <<>>, {}) : s \in LtSubChoices}
       \cup {MkLt(<<>>, b, <<>>, <<>>, <<>>, {}) : b \in LtBookmarkChoices}
       \cup {MkLt(<<>>, <<>>, <<FlatPl("P", <<FlatVideo("a", "none", "")>>)>>,
                  <<FlatHist("a", "none", 20000, 1)>>, <<>>, bad) : bad \in LtBadChoices}
       \cup {MkLt(<<>>, <<>>, <<[FlatPl("P", <<>>) EXCEPT !.hasVideos = FALSE]>>, <<>>, <<>>, {})}
  /\ NlIdle /\ SttIdle /\ UiIdle

\* watch history and watch state
InitHist ==
  /\ np \in {MkNp(<<>>, <<>>, <<>>, <<>>, h, <<>>) : h \in NpHistChoices}
       \cup {MkNp(<<>>, <<>>, <<>>, s, <<HistRow(1, 20000, 1)>>, <<>>) : s \in NpStateChoices}
  /\ lt \in {MkLt(<<>>, <<>>, <<>>, h, <<>>, {}) : h \in LtHistChoices}
       \cup {MkLt(<<>>, <<>>, <<>>, <<FlatHist("a", "none", 20000, 1)>>, p, {}) : p \in LtPosChoices}
  /\ NlIdle /\ SttIdle /\ UiIdle

\* --------------------------------------------------------------- actions
\* the outcome r of a Structured -> Flat run: the document is downloaded
\* unless the run threw; the handle opened on the store is closed on no path
LtDownload(mode, pb, includeWatchHistory, r) ==
  /\ lt' = IF r.threw THEN lt ELSE r.doc
  /\ run' = [op |-> "to_libretube", mode |-> mode, pb |-> pb, hist |-> includeWatchHistory,
             threw |-> r.threw, failed |-> {}, committed |-> FALSE, exported |-> ~r.threw,
             log |-> r.log, skips |-> r.skips, inTxn |-> FALSE, dbOpen |-> TRUE,
             inNp |-> np, inLt |-> lt]

\* processBackup('to_libretube')
ToLibreTube(mode, pb, includeWatchHistory) ==
  /\ runs < MaxRuns
  /\ LtDownload(mode, pb, includeWatchHistory,
                convertToLibreTube(np, lt, mode, pb, includeWatchHistory))
  /\ np' = np
  /\ prev' = run
  /\ runs' = runs + 1
  /\ UNCHANGED <<stt, uh, zone, sttRun, ui>>

\* the outcome r of a Flat -> Structured run: the store is downloaded unless
\* the run threw
NpDownload(mode, pb, r) ==
  /\ np' = IF r.exported THEN r.db ELSE np
  /\ run' = [op |-> "to_newpipe", mode |-> mode, pb |-> pb, hist |-> TRUE,
             threw |-> r.threw, failed |-> r.failed, committed |-> r.committed,
             exported |-> r.exported, log |-> r.log, skips |-> r.skips,
             inTxn |-> r.inTxn, dbOpen |-> r.dbOpen, inNp |-> np, inLt |-> lt]

\* processBackup('to_newpipe')
ToNewPipe(mode, pb, now) ==
  /\ runs < MaxRuns
  /\ NpDownload(mode, pb, convertToNewPipe(np, lt, mode, pb, now))
  /\ lt' = lt
  /\ prev' = run
  /\ runs' = runs + 1
  /\ UNCHANGED <<stt, uh, zone, sttRun, ui>>

MergeToLibreTube == \E pb \in PlaylistBehaviors, h \in BOOLEAN : ToLibreTube("merge", pb, h)
ConvertToLibreTube == \E h \in BOOLEAN : ToLibreTube("convert", "null", h)
MergeToNewPipe == \E pb \in PlaylistBehaviors, now \in NowChoices : ToNewPipe("merge", pb, now)
ConvertToNewPipe == \E now \in NowChoices : ToNewPipe("convert", "null", now)

Next == MergeToLibreTube \/ ConvertToLibreTube \/ MergeToNewPipe \/ ConvertToNewPipe

\* --- the time-record side
SttRecord(id, type, start, end) ==
  [id |-> id, type_id |-> type, start_timestamp |-> start, end_timestamp |-> end,
   comment |-> ""]

SttRecordChoices ==
  { <<SttRecord(1, 1, 0, 120000)>>,
    <<SttRecord(1, 1, 0, 120000), SttRecord(2, 1, 90000000, 90600000)>>,
    <<SttRecord(1, 1, 82800000, 82920000), SttRecord(2, 2, 3600000, 3630000),
      SttRecord(3, 1, 90000000, 90600000)>>,
    <<SttRecord(1, 2, 7200000, 7800000), SttRecord(2, 1, 10800000, 10830000)>>,
    <<SttRecord(1, 1, 3600000, 3720000), SttRecord(2, 1, 82800000, 82920000)>>,
    <<SttRecord(1, 2, 7200000, 7800000), SttRecord(2, 1, 90000000, 90600000)>>,
    <<[SttRecord(1, 1, 0, 120000) EXCEPT !.comment = "gym"],
      [SttRecord(2, 1, 600000, 900000) EXCEPT !.comment = "gym"],
      [SttRecord(3, 1, 1200000, 1500000) EXCEPT !.comment = "run"]>> }

Habit(id, type, archived) == [id |-> id, type |-> type, archived |-> archived]
DefHabits == <<Habit(7, 0, 0), Habit(8, 1, 0), Habit(9, 0, 1)>>

Repetition(id, habit, timestamp) ==
  [id |-> id, habit |-> habit, timestamp |-> timestamp, value |-> 2, notes |-> <<>>]

ZoneChoices == {0, 3600000, -18000000}

Mapping(type, habit, minDuration) ==
  [sttTypeId |-> type, uhabitsHabitId |-> habit, minDuration |-> minDuration,
   copySttComments |-> FALSE]

MappingChoices ==
  { <<Mapping(1, 7, 1)>>, <<Mapping(2, 7, 0)>>,
    <<Mapping(1, 7, 1), Mapping(2, 7, 0)>>, <<Mapping(2, 7, 0), Mapping(1, 7, 0)>>,
    <<Mapping(1, 8, 0)>>, <<Mapping(3, 7, 0)>>, <<Mapping(1, 9, 0)>>,
    <<[Mapping(1, 7, 0) EXCEPT !.copySttComments = TRUE]>> }

InitStt ==
  /\ zone \in ZoneChoices
  /\ stt \in {[recordTypes |-> {1, 2}, records |-> r] : r \in SttRecordChoices}
  /\ uh \in {[Habits |-> DefHabits, Repetitions |-> reps, uniqueIndex |-> u] :
               reps \in { <<>>,
                          <<Repetition(1, 7, timestampToDayStart(0, zone))>>,
                          <<Repetition(1, 8, timestampToDayStart(0, zone)),
                            Repetition(2, 7, timestampToDayStart(90000000, zone))>> },
               u \in BOOLEAN}
  /\ sttRun = NoSttRun
  /\ np = EmptyDb /\ lt = EmptyBackup /\ NlIdle /\ UiIdle

\* handleSttConvert: the habit store is downloaded unless the run failed; the
\* run closes its handle after the export, which a failed run does not reach
SttConvert ==
  \E mappings \in MappingChoices :
    LET r == convertSttToUHabits(stt, uh, mappings, zone)
    IN /\ sttRun.n < MaxRuns
       /\ Len(mappings) > 0
       /\ uh' = IF r.threw THEN uh ELSE r.db
       /\ sttRun' = [n |-> sttRun.n + 1, mappings |-> mappings,
                     prevMappings |-> sttRun.mappings, inserted |-> r.inserted,
                     prevInserted |-> sttRun.inserted, threw |-> r.threw,
                     prevThrew |-> sttRun.threw, inReps |-> uh.Repetitions,
                     dbOpen |-> r.threw]
       /\ UNCHANGED <<np, lt, run, prev, runs, stt, zone, ui>>

NextStt == SttConvert

SpecStt == InitStt /\ [][NextStt]_vars

\* stores whose stream_state table has the legacy shape, with and without a
\* table named stream_state_old
\* a legacy stream_state table has no primary key: a stream may have two rows
LegacyStates ==
  <<[progress_time |-> 2, stream_id |-> 1], [progress_time |-> 5, stream_id |-> 1]>>

InitMig ==
  /\ np \in {[MkNp(<<SubRow(1, SERVICE_ID_YOUTUBE, TRUE, "c1")>>, <<Pl("P", <<1>>)>>, <<>>, st,
                    <<HistRow(1, 20000, 1)>>, <<>>)
                 EXCEPT !.stateSchema = sh, !.tables = tb] :
                st \in NpStateChoices, sh \in {"canonical", "legacy"},
                tb \in {{}, {"stream_state_old"}}}
       \cup {[MkNp(<<>>, <<>>, <<>>, LegacyStates, <<>>, <<>>) EXCEPT !.stateSchema = "legacy"]}
  /\ lt \in {MkLt(<<FlatSub(TRUE, "c2")>>, <<>>, <<FlatPl("Q", <<FlatVideo("a", "none", "")>>)>>,
                  h, <<>>, {}) :
                h \in {<<>>, <<FlatHist("a", "none", 20000, 1)>>}}
  /\ NlIdle /\ SttIdle /\ UiIdle

\* ------------------------------------------------------------- the page
\* runs, loads and handles the model follows
MaxInflight == 2
MaxLoads == 3
MaxHandles == 4
FileChoices == {1, 2}
\* the left slot: the page reads the habit store from the right slot only
LeftFileChoices == {1}
Modes == {"merge", "convert", "stt"}

ModeType(m) == IF m = "stt" THEN "stt" ELSE "newpipe"
Files == <<np, lt, run, prev, runs, stt, uh, zone, sttRun>>

\* handleModeChange: the files are cleared when the converter type changes
HandleModeChange ==
  \E newMode \in Modes :
    /\ newMode # ui.mode
    /\ ui' = IF ModeType(newMode) # ModeType(ui.mode)
              THEN [ui EXCEPT !.mode = newMode, !.leftFile = 0, !.rightFile = 0]
              ELSE [ui EXCEPT !.mode = newMode]
    /\ UNCHANGED Files

\* handleLeftFileChange, with loadSttFile in the time-record mode
HandleLeftFileChange ==
  \E file \in LeftFileChoices :
    /\ ui' = [ui EXCEPT !.leftFile = file,
                        !.sttLoaded = IF ui.mode = "stt" THEN TRUE ELSE @]
    /\ UNCHANGED Files

\* handleRightFileChange; in the time-record mode loadUHabitsFile begins: it
\* takes its operation id, captures the handle of the store and awaits the parse
HandleRightFileChange ==
  \E file \in FileChoices :
    /\ ui.mode = "stt" => ui.currentOperationId < MaxLoads
    /\ ui' = IF ui.mode = "stt"
              THEN [ui EXCEPT !.rightFile = file,
                              !.lastFile = file, !.lastFailed = FALSE,
                              !.currentOperationId = @ + 1,
                              !.loads = @ \cup {[operationId |-> ui.currentOperationId + 1,
                                                 prevDb |-> ui.uhabitsData,
                                                 file |-> file, newDb |-> 0]}]
              ELSE [ui EXCEPT !.rightFile = file]
    /\ UNCHANGED Files

\* db.close() on handle id (0: no handle, nothing is closed)
CloseDb(u, id) ==
  [u EXCEPT !.handles = {h \in @ : h.id # id},
            !.reclosed = IF id # 0 /\ \A h \in u.handles : h.id # id THEN @ \cup {id} ELSE @]

\* parseUHabitsBackup: the parsed backup carries the handle it opened on the
\* file, which the caller is to close
parseUHabitsBackup(opened, file) == [id |-> opened + 1, file |-> file]

\* parseUHabitsBackup within loadUHabitsFile: the handle of the new file is opened
LoadOpened ==
  \E op \in ui.loads :
    /\ op.newDb = 0
    /\ ui.opened < MaxHandles
    /\ ui' = [ui EXCEPT !.opened = @ + 1,
                        !.handles = @ \cup {parseUHabitsBackup(ui.opened, op.file)},
                        !.loads = (@ \ {op}) \cup {[op EXCEPT !.newDb = parseUHabitsBackup(ui.opened, op.file).id]}]
    /\ UNCHANGED Files

\* variant: the operation id is not compared
LoadDone_Unordered ==
  \E op \in ui.loads :
    /\ op.newDb # 0
    /\ ui' = CloseDb([ui EXCEPT !.uhabitsData = op.newDb,
                                !.uhabitsFile = op.file,
                                !.loads = @ \ {op}], op.prevDb)
    /\ UNCHANGED Files

\* loadUHabitsFile after the parse: a load that is no longer the latest closes
\* its own handle; the latest one replaces the store's and then closes the
\* handle it captured
LoadDone ==
  \E op \in ui.loads :
    /\ op.newDb # 0
    /\ ui' = IF op.operationId # ui.currentOperationId
              THEN CloseDb([ui EXCEPT !.loads = @ \ {op}], op.newDb)
              ELSE CloseDb([ui EXCEPT !.uhabitsData = op.newDb,
                                      !.uhabitsFile = op.file,
                                      !.loads = @ \ {op}], op.prevDb)
    /\ UNCHANGED Files

\* loadUHabitsFile when the parse fails before a handle is returned
LoadFailed ==
  \E op \in ui.loads :
    /\ op.newDb = 0
    /\ ui' = IF op.operationId # ui.currentOperationId
              THEN [ui EXCEPT !.loads = @ \ {op}]
              ELSE CloseDb([ui EXCEPT !.uhabitsData = 0, !.uhabitsFile = 0,
                                      !.lastFailed = TRUE,
                                      !.loads = @ \ {op}],
                           IF ui.uhabitsData = op.prevDb THEN op.prevDb ELSE 0)
    /\ UNCHANGED Files

\* a name for a run that no run in flight bears
FreeRunId == CHOOSE i \in 1..MaxInflight : \A r \in ui.inflight : r.id # i

\* processBackup up to its await: the files are checked, processing is set.
\* The Merge and Target buttons are enabled whatever processing is.
ProcessBackupStart ==
  \E direction \in {"to_newpipe", "to_libretube"} :
    /\ ui.mode \in {"merge", "convert"}
    /\ ui.mode = "merge" => ui.leftFile # 0 /\ ui.rightFile # 0
    /\ (ui.mode = "convert" /\ direction = "to_newpipe") => ui.rightFile # 0
    /\ (ui.mode = "convert" /\ direction = "to_libretube") => ui.leftFile # 0
    /\ Cardinality(ui.inflight) < MaxInflight
    /\ ui' = [ui EXCEPT !.processing = TRUE,
                        !.inflight = @ \cup {[id |-> FreeRunId, kind |-> direction,
                                              file |-> 0, db |-> 0]}]
    /\ UNCHANGED Files

\* the end of a run, whether it returned or threw: finally processing is reset
RunEnd(r) ==
  CloseDb([ui EXCEPT !.processing = FALSE, !.inflight = @ \ {r}], r.db)

ProcessBackupEnd ==
  \E r \in ui.inflight :
    /\ r.kind # "stt"
    /\ ui' = RunEnd(r)
    /\ UNCHANGED Files

\* canConvert of the Fill button
canConvert == ui.sttLoaded /\ ui.uhabitsData # 0 /\ ui.uhabitsFile # 0

\* handleSttConvert up to its await; the Fill button is disabled while
\* processing is set
SttConvertStart ==
  /\ ui.mode = "stt"
  /\ ~ui.processing /\ canConvert
  /\ Cardinality(ui.inflight) < MaxInflight
  /\ ui' = [ui EXCEPT !.processing = TRUE,
                      !.inflight = @ \cup {[id |-> FreeRunId, kind |-> "stt",
                                            file |-> ui.uhabitsFile, db |-> 0]}]
  /\ UNCHANGED Files

\* parseUHabitsBackup within convertSttToUHabits: the run opens its own handle
\* on the habit file
SttConvertOpened ==
  \E r \in ui.inflight :
    /\ r.kind = "stt" /\ r.db = 0
    /\ ui.opened < MaxHandles
    /\ ui' = [ui EXCEPT !.opened = @ + 1,
                        !.handles = @ \cup {parseUHabitsBackup(ui.opened, r.file)},
                        !.inflight = (@ \ {r}) \cup {[r EXCEPT !.db = parseUHabitsBackup(ui.opened, r.file).id]}]
    /\ UNCHANGED Files

\* the rows are written, the store is exported and the run's handle closed
SttConvertEnd ==
  \E r \in ui.inflight :
    /\ r.kind = "stt" /\ r.db # 0
    /\ ui' = RunEnd(r)
    /\ UNCHANGED Files

NextUi ==
  \/ HandleModeChange \/ HandleLeftFileChange \/ HandleRightFileChange
  \/ LoadOpened \/ LoadDone \/ LoadFailed
  \/ ProcessBackupStart \/ ProcessBackupEnd
  \/ SttConvertStart \/ SttConvertOpened \/ SttConvertEnd

InitUi == UiIdle /\ np = EmptyDb /\ lt = EmptyBackup /\ NlIdle /\ SttIdle

SpecUi == InitUi /\ [][NextUi]_vars

\* the habit store alone, in the time-record mode: files are chosen one after
\* the other while earlier loads are still parsing
InitLoad ==
  /\ ui = [NoUi EXCEPT !.mode = "stt"]
  /\ np = EmptyDb /\ lt = EmptyBackup /\ NlIdle /\ SttIdle

NextLoad == HandleRightFileChange \/ LoadOpened \/ LoadDone \/ LoadFailed

SpecLoad == InitLoad /\ [][NextLoad]_vars

\* upload dates of every kind, of a playlist member that is also in the history
UploadDateChoices ==
  { NullDate, [kind |-> "text", n |-> 0], [kind |-> "iso", n |-> 7], [kind |-> "compact", n |-> 9],
    NumDate(0), NumDate(5), NumDate(SecondsMin + 1), NumDate(MsScale + 5),
    NumDate(MaxTimeValue), NumDate(MaxTimeValue + 1), NumDate(-(MaxTimeValue + 1)) }

InitDate ==
  /\ np \in {[MkNp(<<>>, <<Pl("P", <<2, 1>>), Pl("Q", <<2>>)>>, <<>>, <<>>, h, <<>>)
                 EXCEPT !.streams[1].upload_date = d] :
                d \in UploadDateChoices,
                h \in {<<>>, <<HistRow(2, 20000, 1), HistRow(1, 21000, 1)>>}}
  /\ lt \in {MkLt(<<>>, <<>>, <<>>, h, <<>>, {}) :
                h \in {<<>>, <<FlatHist("b", "none", 19000, 1)>>}}
  /\ NlIdle /\ SttIdle /\ UiIdle

SpecDate == InitDate /\ [][Next]_vars
SpecMig == InitMig /\ [][Next]_vars
SpecPl == InitPl /\ [][Next]_vars
SpecSub == InitSub /\ [][Next]_vars
SpecHist == InitHist /\ [][Next]_vars



\* ================================================================ properties
\* the video a URL denotes, whether or not the converters recognise its shape
VideoOf(url) == url.id

StreamByUid(db, uid) == {s \in Range(db.streams) : s.uid = uid}

\* the videos of a playlist in stored order
MemberVideos(db, plId) ==
  LET js == OrderByJoinIndex({j \in Range(db.playlist_stream_join) : j.playlist_id = plId})
  IN [k \in DOMAIN js |-> VideoOf((CHOOSE s \in StreamByUid(db, js[k].stream_id) : TRUE).url)]

SetMax(S) == CHOOSE m \in S : \A x \in S : x <= m

\* ---------------------------------------------------------------------- C1
\* a Structured->Flat conversion without history followed by a
\* Flat->Structured conversion of its output
RoundTripDone ==
  /\ run.op = "to_newpipe" /\ run.mode = "convert" /\ run.exported
  /\ prev.op = "to_libretube" /\ prev.mode = "convert" /\ ~prev.hist /\ ~prev.threw

RoundTripPreserves ==
  /\ Len(np.subscriptions) = Len(prev.inNp.subscriptions)
  /\ Len(np.playlists) = Len(prev.inNp.playlists)
  /\ \A i \in DOMAIN np.playlists \cap DOMAIN prev.inNp.playlists :
       MemberVideos(np, np.playlists[i].uid)
         = MemberVideos(prev.inNp, prev.inNp.playlists[i].uid)

\* C1 as stated: the round trip of any structured store preserves the number
\* of subscriptions, the number of playlists and every playlist's video order.
C1_RoundTripAnyStore == RoundTripDone => RoundTripPreserves

\* the stores the converters carry over in full: YouTube subscriptions only,
\* playlist names non-empty and pairwise distinct, members of recognised shape
RoundTrippable(db) ==
  /\ \A r \in Range(db.subscriptions) : r.service_id = SERVICE_ID_YOUTUBE /\ IsYouTubeUrl(r.url)
  /\ \A i, j \in DOMAIN db.playlists :
       db.playlists[i].name # "" /\ (i # j => db.playlists[i].name # db.playlists[j].name)
  /\ \A j \in Range(db.playlist_stream_join) :
       \A st \in StreamByUid(db, j.stream_id) :
         st.service_id = SERVICE_ID_YOUTUBE /\ st.url.shape \in VideoShapes

\* C1 (amended): for a store whose subscriptions are all YouTube ones, whose
\* playlist names are non-empty and distinct and whose playlist members all
\* have a recognised URL shape, structured -> flat -> structured (convert mode,
\* no history) preserves subscription count, playlist count and, per playlist,
\* the sequence of videos.
C1_RoundTrip == (RoundTripDone /\ RoundTrippable(prev.inNp)) => RoundTripPreserves

C1_Witness ==
  /\ RoundTripDone /\ RoundTrippable(prev.inNp)
  /\ Len(np.subscriptions) = 1
  /\ \E i \in DOMAIN np.playlists : MemberVideos(np, np.playlists[i].uid) = <<"b", "a">>

\* ---------------------------------------------------------------------- C2
\* C2: when a whole phase of a Flat->Structured run fails, the failure reaches
\* the caller, the transaction is not committed, no store is exported and the
\* store in the input slot stays as it was.
C2_PhaseFailureAborts ==
  (run.op = "to_newpipe" /\ run.failed # {}) =>
    (run.threw /\ ~run.committed /\ ~run.exported /\ np = run.inNp)

\* ---------------------------------------------------------------------- C3
\* the access time the converter derives from a history entry that carries one
AccessMsOf(h) == IF h.accessDate > MsScale THEN h.accessDate ELSE h.accessDate * 1000
HistVideo(h) == IF h.videoId # "" THEN h.videoId ELSE extractVideoIdFromUrl(h.url)
RepeatOf(h) == IF h.repeatCount # 0 THEN h.repeatCount ELSE 1

\* C3: in every run mode, two history records of one stream at most 1000 ms
\* apart end up as one watch_history row holding the sum of their repeat
\* counts; more than 1000 ms apart they end up as two rows.  (Stated for a
\* document with exactly these two records and a stream without earlier rows.)
C3_DedupWindowEveryMode ==
  (run.op = "to_newpipe" /\ run.exported /\ Len(run.inLt.watchHistory) = 2) =>
    LET h1 == run.inLt.watchHistory[1]
        h2 == run.inLt.watchHistory[2]
        startDb == IF run.mode = "merge" THEN run.inNp ELSE EmptyDb
        sid0 == StreamUidByUrl(startDb, WatchUrl(HistVideo(h1)))
        sid == StreamUidByUrl(np, WatchUrl(HistVideo(h1)))
        rows == {r \in Range(np.stream_history) : r.stream_id = sid}
    IN (/\ HistVideo(h1) # "" /\ HistVideo(h1) = HistVideo(h2)
        /\ h1.accessDate # 0 /\ h2.accessDate # 0
        /\ \A r \in Range(startDb.stream_history) : r.stream_id # sid0)
       => IF Abs(AccessMsOf(h1) - AccessMsOf(h2)) <= DedupWindowMs
          THEN Cardinality(rows) = 1
               /\ \A r \in rows : r.repeat_count = RepeatOf(h1) + RepeatOf(h2)
          ELSE Cardinality(rows) = 2

\* ---------------------------------------------------------------------- C4
LtMergedState == run.op = "to_libretube" /\ run.mode = "merge" /\ run.hist /\ ~run.threw

PrePositions(v) == {e.position : e \in {x \in Range(run.inLt.watchPositions) : x.videoId = v}}
SrcPositions(v) ==
  {r.progress_time : r \in {x \in Range(run.inNp.stream_state) :
      \E st \in StreamByUid(run.inNp, x.stream_id) :
         st.service_id = SERVICE_ID_YOUTUBE /\ extractVideoIdFromUrl(st.url) = v}}
OutPositions(v) == {e.position : e \in {x \in Range(lt.watchPositions) : x.videoId = v}}
PreVideoIds == {e.videoId : e \in Range(run.inLt.watchPositions)} \ {""}
SrcVideoIds ==
  {extractVideoIdFromUrl(st.url) : st \in {x \in Range(run.inNp.streams) :
      x.service_id = SERVICE_ID_YOUTUBE /\ \E r \in Range(run.inNp.stream_state) : r.stream_id = x.uid}} \ {""}
PreEntries(v) == {i \in DOMAIN run.inLt.watchPositions : run.inLt.watchPositions[i].videoId = v}

\* C4 as stated: the output position of every video of the pre-existing
\* document is the maximum of its pre-existing and its source position, hence
\* never lower than it was.
C4_MaxOfPositions ==
  LtMergedState =>
    \A v \in PreVideoIds :
      /\ OutPositions(v) = {SetMax(PrePositions(v) \cup SrcPositions(v))}
      /\ \A p \in PrePositions(v) : \A q \in OutPositions(v) : q >= p

ClampAll(S) == {clampToSafeInt(x) : x \in S}

\* C4 (amended): for a pre-existing document holding one position per video
\* id, the output position of every video id is the maximum of the
\* pre-existing and the source position, each clamped to the safe-integer
\* range; it is never lower than the clamped pre-existing position.
C4_MaxOfClampedPositions ==
  LtMergedState =>
    /\ \A v \in PreVideoIds :
         Cardinality(PreEntries(v)) = 1 =>
           /\ OutPositions(v) = {SetMax(ClampAll(PrePositions(v) \cup SrcPositions(v)))}
           /\ \A p \in PrePositions(v) : \A q \in OutPositions(v) : q >= clampToSafeInt(p)
    /\ \A v \in SrcVideoIds \ PreVideoIds :
         SetMax(ClampAll(SrcPositions(v))) > 0 =>
           OutPositions(v) = {SetMax(ClampAll(SrcPositions(v)))}

C4_Witness ==
  /\ LtMergedState
  /\ \E v \in PreVideoIds \cap SrcVideoIds :
       /\ Cardinality(PreEntries(v)) = 1
       /\ SetMax(PrePositions(v)) > SetMax(SrcPositions(v))
       /\ SetMax(SrcPositions(v)) > 0
       /\ OutPositions(v) = PrePositions(v)
  /\ \E v \in PreVideoIds \cap SrcVideoIds :
       SetMax(PrePositions(v)) < SetMax(SrcPositions(v)) /\ OutPositions(v) = SrcPositions(v)

\* ---------------------------------------------------------------------- C5
SttRepeated ==
  /\ sttRun.n >= 2 /\ sttRun.mappings = sttRun.prevMappings /\ ~sttRun.prevThrew

\* C5: a second Time-Record -> Habit-Boolean run with the same export and the
\* same mappings, on the store the first run produced, completes and inserts
\* no repetition row.
C5_SecondRunInsertsNothing == SttRepeated => (~sttRun.threw /\ sttRun.inserted = 0)

C5_Witness == SttRepeated /\ sttRun.prevInserted >= 2 /\ sttRun.inserted = 0

\* ---------------------------------------------------------------------- C6
ReferencedStreamIds(db) ==
  {j.stream_id : j \in Range(db.playlist_stream_join)}
    \cup {r.stream_id : r \in Range(db.stream_state)}
    \cup {r.stream_id : r \in Range(db.stream_history)}

\* C6: after a Flat->Structured run every referenced video resolves to exactly
\* one streams row whose URL is the canonical watch URL, and no video is
\* stored under two streams rows.
C6_OneCanonicalStreamPerVideo ==
  (run.op = "to_newpipe" /\ run.exported) =>
    /\ \A sid \in ReferencedStreamIds(np) :
         /\ Cardinality(StreamByUid(np, sid)) = 1
         /\ \A st \in StreamByUid(np, sid) : st.url = WatchUrl(VideoOf(st.url))
    /\ \A s1, s2 \in Range(np.streams) :
         (s1.service_id = s2.service_id /\ VideoOf(s1.url) = VideoOf(s2.url)) => s1 = s2

\* ---------------------------------------------------------------------- C7
\* C7: after a Flat->Structured run every membership row references an
\* existing playlist and stream, every playlist thumbnail an existing stream,
\* every watch_state and watch_history row an existing stream, and no feed row
\* references a subscription the run deleted.
C7_ReferentiallyIntact ==
  (run.op = "to_newpipe" /\ run.exported) =>
    /\ \A j \in Range(np.playlist_stream_join) :
         /\ \E p \in Range(np.playlists) : p.uid = j.playlist_id
         /\ StreamByUid(np, j.stream_id) # {}
    /\ \A p \in Range(np.playlists) : StreamByUid(np, p.thumbnail_stream_id) # {}
    /\ \A r \in Range(np.stream_state) : StreamByUid(np, r.stream_id) # {}
    /\ \A r \in Range(np.stream_history) : StreamByUid(np, r.stream_id) # {}
    /\ \A f \in Range(np.feed) :
         /\ StreamByUid(np, f.stream_id) # {}
         /\ \E sub \in Range(np.subscriptions) : sub.uid = f.subscription_id

\* ---------------------------------------------------------------------- C8
NoDuplicates(s) == \A i, j \in DOMAIN s : s[i] = s[j] => i = j

SubscriptionUrls(doc) == [i \in DOMAIN doc.subscriptions |-> doc.subscriptions[i].url]

\* C8: merging the same structured store into a flat document a second time,
\* with the first run's output as target, leaves no subscription URL and no
\* bookmark more than once in the output.
C8_RepeatedMergeNoDuplicates ==
  (/\ run.op = "to_libretube" /\ run.mode = "merge" /\ ~run.threw
   /\ prev.op = "to_libretube" /\ prev.mode = "merge" /\ ~prev.threw
   /\ prev.pb = run.pb /\ prev.inNp = run.inNp
   /\ NoDuplicates(SubscriptionUrls(prev.inLt)) /\ NoDuplicates(prev.inLt.playlistBookmarks))
  => (NoDuplicates(SubscriptionUrls(lt)) /\ NoDuplicates(lt.playlistBookmarks))

\* ---------------------------------------------------------------------- C9
\* the kind of record a log message is about
EventKind(event) ==
  CASE event \in {"Dropped non-YouTube subscription URL", "Dropped non-YouTube subscription",
                  "ERROR inserting subscription"} -> "subscription"
    [] event \in {"Dropped non-YouTube remote playlist URL",
                  "Dropped non-YouTube remote playlist"} -> "remote playlist"
    [] event \in {"Skipped stream in playlist",
                  "Skipped video in playlist due to missing videoId"} -> "playlist video"
    [] event = "Skipping duplicate local playlist" -> "playlist"
    [] OTHER -> "run"

\* C9: every record a converter skips has a warning or error in the log that
\* names it.
C9_EverySkipLogged ==
  \A i \in DOMAIN run.skips :
    LET sk == run.skips[i]
    IN Cardinality({k \in DOMAIN run.skips : run.skips[k] = sk})
         <= Cardinality({k \in DOMAIN run.log :
                           /\ run.log[k].level \in {"warn", "err"}
                           /\ EventKind(run.log[k].event) = sk.kind
                           /\ run.log[k].subject = sk.subject})

\* --------------------------------------------------------------------- C10
\* the entry-by-entry translation of a source playlist
ConvertedVideos(db, plId) ==
  LET ids == [k \in DOMAIN PlaylistMemberUrls(db, plId) |->
                extractVideoIdFromUrl(PlaylistMemberUrls(db, plId)[k])]
      kept == SelectSeq(ids, LAMBDA x : x # "")
  IN [k \in DOMAIN kept |-> [videoId |-> kept[k], url |-> NoUrl]]

SourcePlaylistsNamed(n) ==
  {p \in Range(run.inNp.playlists) :
     p.name = n /\ (n # "" \/ ConvertedVideos(run.inNp, p.uid) # <<>>)}
TargetPlaylistsNamed(n) ==
  {i \in DOMAIN run.inLt.localPlaylists : run.inLt.localPlaylists[i].name = n}
OutputPlaylistsNamed(n) ==
  {i \in DOMAIN lt.localPlaylists : lt.localPlaylists[i].name = n}

CollisionPolicies == {"merge_np_precedence", "merge_lt_precedence", "null"}

LtCollisionRun ==
  run.op = "to_libretube" /\ run.mode = "merge" /\ ~run.threw /\ run.pb \in CollisionPolicies

IncomingName(lp) == IF lp.name # "" THEN lp.name ELSE "Untitled"
IncomingVideoIds(lp) ==
  LET ids == [k \in DOMAIN lp.videos |->
                IF lp.videos[k].videoId # "" THEN lp.videos[k].videoId
                ELSE IF lp.videos[k].url # NoUrl THEN extractVideoIdFromUrl(lp.videos[k].url)
                ELSE ""]
  IN SelectSeq(ids, LAMBDA x : x # "")

IncomingPlaylistsNamed(n) ==
  {i \in DOMAIN run.inLt.localPlaylists : IncomingName(run.inLt.localPlaylists[i]) = n}
ExistingPlaylistsNamed(n) == {p \in Range(run.inNp.playlists) : p.name = n}
StoredPlaylistsNamed(n) == {p \in Range(np.playlists) : p.name = n}

NpCollisionRun(pb) ==
  run.op = "to_newpipe" /\ run.mode = "merge" /\ ~run.threw /\ run.pb = pb

\* the names an incoming playlist shares with exactly one playlist of the store
CollidingNames ==
  {n \in {IncomingName(run.inLt.localPlaylists[i]) : i \in DOMAIN run.inLt.localPlaylists} :
     Cardinality(ExistingPlaylistsNamed(n)) = 1}

\* the existing playlist of name n and its membership rows are gone and the
\* store holds the incoming playlist of that name with its members
ReplacedByIncoming(n) ==
  /\ \A e \in ExistingPlaylistsNamed(n) :
       /\ \A p \in Range(np.playlists) : p.uid # e.uid
       /\ \A j \in Range(np.playlist_stream_join) : j.playlist_id # e.uid
  /\ Cardinality(StoredPlaylistsNamed(n)) = 1
  /\ \A p \in StoredPlaylistsNamed(n) :
       \E i \in IncomingPlaylistsNamed(n) :
         MemberVideos(np, p.uid) = IncomingVideoIds(run.inLt.localPlaylists[i])

\* C11 as stated: in a Flat->Structured merge with precedence of the target
\* (the structured store, merge_np_precedence), an incoming playlist whose name
\* is that of a playlist of the store replaces it: the existing playlist and
\* its membership rows are deleted and the incoming one is inserted.
C11_TargetPrecedenceReplaces ==
  NpCollisionRun("merge_np_precedence") => \A n \in CollidingNames : ReplacedByIncoming(n)

\* C11 amended: the replacement is what precedence of the source (the flat
\* document, merge_lt_precedence) does; the store then holds one playlist of
\* the name, with the members of the last incoming playlist of that name.
C11_SourcePrecedenceReplaces ==
  NpCollisionRun("merge_lt_precedence") =>
    \A n \in CollidingNames :
      /\ ReplacedByIncoming(n)
      /\ \A p \in StoredPlaylistsNamed(n) :
           \A i \in IncomingPlaylistsNamed(n) :
             (\A k \in IncomingPlaylistsNamed(n) : k <= i) =>
               MemberVideos(np, p.uid) = IncomingVideoIds(run.inLt.localPlaylists[i])

\* a replacement that changed the members of the playlist
C11_Witness ==
  /\ NpCollisionRun("merge_lt_precedence")
  /\ \E n \in CollidingNames :
       \E e \in ExistingPlaylistsNamed(n) : \E p \in StoredPlaylistsNamed(n) :
         /\ MemberVideos(run.inNp, e.uid) # <<>>
         /\ MemberVideos(np, p.uid) # <<>>
         /\ MemberVideos(np, p.uid) # MemberVideos(run.inNp, e.uid)

\* --------------------------------------------------------------------- C12
LtTargetOnlyRun ==
  run.op = "to_libretube" /\ run.mode = "merge" /\ run.pb = "only_libretube" /\ ~run.threw

\* C12: after a Structured->Flat merge under the target-only policy the
\* playlist bookmarks, the local playlists and the other playlist-related
\* fields of the output document equal, in content and order, those of the
\* flat document that was read, whatever playlists the store holds.
C12_TargetOnlyKeepsPlaylists ==
  LtTargetOnlyRun =>
    /\ lt.playlistBookmarks = run.inLt.playlistBookmarks
    /\ lt.localPlaylists = run.inLt.localPlaylists
    /\ lt.otherPlaylistKeys = run.inLt.otherPlaylistKeys

\* the store holds a playlist that the flat document has not, and the
\* document has playlists of its own
C12_Witness ==
  /\ LtTargetOnlyRun
  /\ run.inLt.localPlaylists # <<>>
  /\ run.inLt.otherPlaylistKeys # <<>>
  /\ \E p \in Range(run.inNp.playlists) :
       /\ ConvertedVideos(run.inNp, p.uid) # <<>>
       /\ \A q \in Range(run.inLt.localPlaylists) : q.name # p.name

\* --------------------------------------------------------------------- C13
NpTargetOnlyRun ==
  run.op = "to_newpipe" /\ run.mode = "merge" /\ run.pb = "only_newpipe" /\ run.exported

\* C13: a Flat->Structured merge under the target-only policy leaves the
\* playlists, playlist membership and remote playlist bookmark tables as they
\* were: no row deleted, none modified, none added.
C13_TargetOnlyKeepsPlaylistTables ==
  NpTargetOnlyRun =>
    /\ np.playlists = run.inNp.playlists
    /\ np.playlist_stream_join = run.inNp.playlist_stream_join
    /\ np.remote_playlists = run.inNp.remote_playlists
    /\ np.seq.playlists = run.inNp.seq.playlists
    /\ np.seq.remote_playlists = run.inNp.seq.remote_playlists

\* the flat document brought playlists or bookmarks and the store had rows to lose
C13_Witness ==
  /\ NpTargetOnlyRun
  /\ run.inLt.localPlaylists # <<>> \/ run.inLt.playlistBookmarks # <<>>
  /\ run.inNp.playlists # <<>> \/ run.inNp.remote_playlists # <<>>
  /\ np # run.inNp

\* --------------------------------------------------------------------- C14
\* the local calendar day of a record's start time and the midnight it begins at
LocalDay(record) == (record.start_timestamp + zone) \div DayMs
LocalMidnight(day) == day * DayMs - zone

\* the mappings of the last run that name a record type and a boolean habit
ValidMappings ==
  {m \in Range(sttRun.mappings) :
     m.sttTypeId \in stt.recordTypes /\ m.uhabitsHabitId \in BooleanHabits(uh)}

QualifyingRecords(m) ==
  Range(getRecordsForType(filterRecordsByDuration(stt.records, m.minDuration), m.sttTypeId))

RepetitionsAt(reps, habit, timestamp) ==
  {k \in DOMAIN reps : reps[k].habit = habit /\ reps[k].timestamp = timestamp}

SttRunDone == sttRun.n > 0 /\ ~sttRun.threw

\* C14: for every mapping and every local calendar day that has a qualifying
\* record and had no repetition of the habit, the run produces exactly one
\* repetition row, whose timestamp is the local midnight of that day.
C14_OneRowPerLocalDay ==
  SttRunDone =>
    \A m \in ValidMappings : \A r \in QualifyingRecords(m) :
      RepetitionsAt(sttRun.inReps, m.uhabitsHabitId, LocalMidnight(LocalDay(r))) = {} =>
        Cardinality(RepetitionsAt(uh.Repetitions, m.uhabitsHabitId,
                                  LocalMidnight(LocalDay(r)))) = 1

\* --------------------------------------------------------------------- C15
\* the unique non-empty comments of the records, in order of appearance
UniqueComments(records) ==
  FoldSeq(LAMBDA cs, r : IF r.comment = "" \/ r.comment \in Range(cs) THEN cs
                         ELSE Append(cs, r.comment),
          <<>>, records)

\* the qualifying records of mapping m on the local day that begins at timestamp
DayRecordsAt(m, timestamp) ==
  SelectSeq(getRecordsForType(filterRecordsByDuration(stt.records, m.minDuration), m.sttTypeId),
            LAMBDA r : LocalMidnight(LocalDay(r)) = timestamp)

\* the rows the last run added
NewRepetitions == {k \in DOMAIN uh.Repetitions : k > Len(sttRun.inReps)}

\* C15: every repetition row the converter adds has the value "checked", and
\* its notes are the concatenation of the unique non-empty comments of the
\* day's records when the mapping's copy-comments flag is set and empty when
\* it is not.
C15_CheckedWithCommentNotes ==
  SttRunDone =>
    \A k \in NewRepetitions :
      /\ uh.Repetitions[k].value = 2
      /\ \E m \in ValidMappings :
           /\ m.uhabitsHabitId = uh.Repetitions[k].habit
           /\ uh.Repetitions[k].notes =
                IF m.copySttComments
                THEN UniqueComments(DayRecordsAt(m, uh.Repetitions[k].timestamp))
                ELSE <<>>

\* --------------------------------------------------------------------- C16
\* C16: the rows one run adds, over all its mappings, are inserted in
\* non-decreasing order of timestamp.
C16_InsertedInTimestampOrder ==
  SttRunDone =>
    \A i, j \in NewRepetitions :
      i < j => uh.Repetitions[i].timestamp <= uh.Repetitions[j].timestamp

\* --------------------------------------------------------------------- C17
\* the migration of the store fails at a statement: the table has to be
\* patched and the rename meets a table of the new name
MigrationFails(db) == db.stateSchema # "canonical" /\ "stream_state_old" \in db.tables

NpMergeRun == run.op = "to_newpipe" /\ run.mode = "merge"

\* C17: when the migration of the store's watch-state table fails, the
\* failure is logged and the Flat->Structured run still begins its
\* transaction, runs its phases, commits and produces an output store.
C17_MigrationFailureProceeds ==
  (NpMergeRun /\ MigrationFails(run.inNp)) =>
    /\ \E k \in DOMAIN run.log : run.log[k].event = "Failed to ensure stream_state schema"
    /\ ~run.threw /\ run.committed /\ run.exported

\* --------------------------------------------------------------------- C18
\* the upload dates the last run met
DatesOfRun == {s.upload_date : s \in Range(run.inNp.streams)}

\* C18: formatUploadDate returns a value for every input and never raises,
\* an unparseable input (null, undefined, the empty string, a text) gives
\* 1970-01-01, and a member of a playlist or a history row with a malformed
\* date neither stops the run nor loses the rest of its playlist.
C18_NoDateAbortsConversion ==
  (run.op = "to_libretube" /\ run.inLt.bad = {}) =>
       /\ \A d \in DatesOfRun : ~formatUploadDate(d).threw
       /\ \A d \in DatesOfRun :
            d.kind \in {"null", "text"} => formatUploadDate(d).date = Epoch
       /\ ~run.threw
       /\ (run.mode = "convert" =>
             \A p \in Range(run.inNp.playlists) :
               \E q \in Range(lt.localPlaylists) :
                 q.name = p.name /\ q.videos = ConvertedVideos(run.inNp, p.uid))

\* --------------------------------------------------------------------- C19
\* C19: at most one conversion run is in flight at any time: while a run
\* started by processBackup or handleSttConvert has not finished, a trigger
\* from the page starts no second one.
C19_OneRunInFlight == Cardinality(ui.inflight) <= 1

LtHistoryRun == run.op = "to_libretube" /\ run.hist /\ ~run.threw

\* the history of the document the run started from
PreHistory ==
  IF run.mode = "merge" /\ "watchHistory" \notin run.inLt.bad
  THEN run.inLt.watchHistory ELSE <<>>

HistoryIds(h) == [i \in DOMAIN h |-> h[i].videoId]

\* C21: after a Structured->Flat conversion with history inclusion, the
\* output history holds at most one entry per video id, also when the store
\* holds several stream_history rows of one stream.  (Stated for runs whose
\* starting document holds no video id twice.)
C21_OneHistoryEntryPerVideo ==
  (LtHistoryRun /\ NoDuplicates(HistoryIds(PreHistory)))
    => NoDuplicates(HistoryIds(lt.watchHistory))

\* --------------------------------------------------------------------- C22
LtHistoryMerge == LtHistoryRun /\ run.mode = "merge" /\ "watchHistory" \notin run.inLt.bad

EntriesOf(h, v) == {i \in DOMAIN h : h[i].videoId = v}

\* no source entry was added for a video id the document already had
NoSourceEntryForKnownVideo ==
  \A v \in Range(HistoryIds(PreHistory)) :
    Cardinality(EntriesOf(lt.watchHistory, v)) = Cardinality(EntriesOf(PreHistory, v))

KeptEntry(e) ==
  IF LtHistoryRows(run.inNp) = <<>> THEN e
  ELSE [e EXCEPT !.accessDate = parseAccessDateToMs(@)]

C23_HistorySortedDescending ==
  (LtHistoryRun /\ (run.mode = "merge" => "watchHistory" \notin run.inLt.bad)) =>
    \A i, j \in DOMAIN lt.watchHistory :
      i < j => lt.watchHistory[i].accessDate >= lt.watchHistory[j].accessDate

\* --------------------------------------------------------------------- C24
SafeInt(n) == -MAX_SAFE_NUM <= n /\ n <= MAX_SAFE_NUM
SafeMs(n) == -MaxSafeMs <= n /\ n <= MaxSafeMs

\* C24: every numeric field of every entry of the document a Structured->Flat
\* run produces, derived from the store or carried over from the document it
\* started from, lies within the safe-integer range; the clamp turns a
\* non-finite value into 0, a value above the range into its upper end and a
\* value below it into its lower end.
C24_NumericFieldsSafe ==
  (run.op = "to_libretube" /\ ~run.threw) =>
    /\ clampToSafeIntOf(NotFinite) = 0
    /\ clampToSafeIntOf(Finite(MAX_SAFE_NUM * 10)) = MAX_SAFE_NUM
    /\ clampToSafeIntOf(Finite(-(MAX_SAFE_NUM * 10))) = -MAX_SAFE_NUM
    /\ \A p \in Range(lt.watchPositions) : SafeInt(p.position)
    /\ \A b \in Range(lt.playlistBookmarks) : SafeInt(b.videos)
    /\ \A q \in Range(lt.localPlaylists) : SafeInt(q.id)
    /\ \A h \in Range(lt.watchHistory) :
         SafeInt(h.currentTime) /\ SafeInt(h.repeatCount) /\ SafeMs(h.accessDate)

\* --------------------------------------------------------------------- C25
\* C25: every transaction begun by createSchema, ensureStreamStateSchema or
\* convertToNewPipe is ended by a COMMIT or a ROLLBACK before the function
\* returns or throws, so that a later BEGIN on the store never meets an open
\* transaction.
C25_TransactionsEnded ==
  run.op = "to_newpipe" =>
    /\ ~NpSetup(run.inNp, run.mode).inTxn
    /\ "begin" \notin run.failed
    /\ ~run.inTxn

\* --------------------------------------------------------------------- C26
\* C26: after ensureStreamStateSchema ran on an existing store, every
\* stream_state row the store had before is still there with its stream and
\* offset, also when the copy step or a later statement of the migration
\* fails.
C26_MigrationKeepsStateRows ==
  NpMergeRun =>
    \A r \in Range(run.inNp.stream_state) :
      r \in Range(ensureStreamStateSchema(run.inNp).db.stream_state)

\* --------------------------------------------------------------------- C27
DayStartOf(r) == timestampToDayStart(r.start_timestamp, zone)

\* C27: after a Time-Record -> Habit-Boolean run the repetition log holds at
\* most one row per habit and day-start timestamp, also when several mappings
\* target the same habit or when a day had a repetition before the run.
C27_OneRowPerHabitAndDay ==
  SttRunDone =>
    \A i, j \in DOMAIN uh.Repetitions :
      (uh.Repetitions[i].habit = uh.Repetitions[j].habit
       /\ uh.Repetitions[i].timestamp = uh.Repetitions[j].timestamp) => i = j

\* a run in which two mappings of one habit have records on the same day, a
\* row was inserted, and another day of the habit had its repetition already
C27_Witness ==
  /\ SttRunDone /\ sttRun.inserted > 0
  /\ \E a, b \in DOMAIN sttRun.mappings :
       /\ a # b
       /\ sttRun.mappings[a] \in ValidMappings /\ sttRun.mappings[b] \in ValidMappings
       /\ sttRun.mappings[a].uhabitsHabitId = sttRun.mappings[b].uhabitsHabitId
       /\ \E r1 \in QualifyingRecords(sttRun.mappings[a]) :
            /\ \E r2 \in QualifyingRecords(sttRun.mappings[b]) : DayStartOf(r1) = DayStartOf(r2)
            /\ RepetitionsAt(sttRun.inReps, sttRun.mappings[a].uhabitsHabitId, DayStartOf(r1)) = {}
       /\ \E r3 \in QualifyingRecords(sttRun.mappings[a]) :
            RepetitionsAt(sttRun.inReps, sttRun.mappings[a].uhabitsHabitId, DayStartOf(r3)) # {}

\* --------------------------------------------------------------------- C28
\* C28: every handle a conversion run opened on a relational store is closed
\* by the time the run returns, whether it succeeds or fails.
C28_HandlesClosedAtReturn ==
  /\ run.op \in {"to_newpipe", "to_libretube"} => ~run.dbOpen
  /\ sttRun.n > 0 => ~sttRun.dbOpen

\* --------------------------------------------------------------------- C29
AllLoadsFinished == ui.loads = {} /\ ui.currentOperationId > 0

C30_MergeNeverLowersOffset ==
  (NpMergeRun /\ run.exported) =>
    \A r \in Range(run.inNp.stream_state) :
      \E q \in Range(np.stream_state) :
        q.stream_id = r.stream_id /\ q.progress_time >= r.progress_time

====
